---- MODULE Spec2Model ----
(***************************************************************************)
(* Model of the OpenLR map-matching router (src/openlr/router.cpp).        *)
(*                                                                         *)
(* Geometry: every point lies on one east-west line and is an integer      *)
(* number of metres; DistanceOnEarth(a, b) = |a - b|.  Altitudes are 0, so *)
(* a junction is its point.  Score::m_distance is kept in metres and       *)
(* Score::m_penalty in thousandths (kFakeCoeff = 0.001 is then 1 per       *)
(* metre); all values are exact integers, so a comparison against          *)
(* kEps = 1e-9 is a strict comparison and "pi < kEps" is "pi = 0".         *)
(***************************************************************************)
EXTENDS Integers, Sequences, FiniteSets, TLC

\* ---------------------------------------------------------------- bounds
MaxCalls == 3
MaxPoints == 3
\* The iterations of the loop of FindPath one call is followed for.
MaxPops == 64

\* ------------------------------------------------------ program constants
kMaxRoadCandidates == 10
kDistanceAccuracyM == 1000
kBearingDist == 25
kNumBuckets == 256
kTrueFakeCoeff == 10
kIntermediateErrorCoeff == 3
kDistanceErrorCoeff == 3
kBearingErrorCoeff == 5
kTolerance == 3
\* thousandths per metre: the unit of Score::m_penalty
PenaltyScale == 1000
\* kFakeCoeff = 0.001, in thousandths
kFakeCoeffMilli == 1
\* bearing penalty of one bucket of deviation, in thousandths
kBearingBucketMilli == 3068
\* radius of the nearest-edge query of the road graph, in metres
kClosestEdgesRadiusM == 50

\* ------------------------------------------------------------- arithmetic
Abs(x) == IF x < 0 THEN -x ELSE x
Min(a, b) == IF a < b THEN a ELSE b
Max(a, b) == IF a > b THEN a ELSE b
Clamp(x, lo, hi) == IF x < lo THEN lo ELSE IF x > hi THEN hi ELSE x

EmptyMap == [x \in {} |-> 0]

RECURSIVE SumSeq(_)
SumSeq(s) == IF s = <<>> THEN 0 ELSE Head(s) + SumSeq(Tail(s))

ReverseSeq(s) == [i \in 1..Len(s) |-> s[Len(s) + 1 - i]]

IsSuffix(a, b) ==
  /\ Len(a) <= Len(b)
  /\ \A i \in 1..Len(a) : a[i] = b[Len(b) - Len(a) + i]

\* --------------------------------------------------------------- geometry
DistanceOnEarth(a, b) == Abs(a - b)

\* m2::IsPointOnSegmentEps on a line: p lies between the ends.
IsPointOnSegmentEps(p, a, b) == Min(a, b) <= p /\ p <= Max(a, b)

\* DotProduct of two vectors on the line.
DotProduct(x, y) == x * y

\* The point at distance delta from a towards b.
PointAtSegment(a, b, delta) ==
  IF a = b THEN a
  ELSE IF b > a THEN a + Clamp(delta, 0, b - a)
  ELSE a - Clamp(delta, 0, a - b)

\* Bearing bucket of the direction a -> b: east is 90 degrees (bucket 64),
\* west 270 degrees (bucket 192); a zero vector has angle 0, i.e. east.
Bearing(a, b) == IF b >= a THEN 64 ELSE 192

\* ------------------------------------------------------------ raw edges
RealEdge(a, b, fid) ==
  [start |-> a, end |-> b, isFake |-> FALSE, partOfReal |-> TRUE, featureId |-> fid]

MakeFake(a, b, partOfReal) ==
  [start |-> a, end |-> b, isFake |-> TRUE, partOfReal |-> partOfReal, featureId |-> 0]

GetReverseEdge(e) == [e EXCEPT !.start = e.end, !.end = e.start]

GetWeight(e) == DistanceOnEarth(e.start, e.end)

\* ---------------------------------------------------------------- worlds
\* A world is a road graph snapshot (the real edges in the order the graph
\* reports them, the functional road class of each feature) together with
\* the way-point positions and declared distances the caller may use (via:
\* the positions of references with more than two way-points), and the
\* positions used when the same router serves several calls.

\* A two-way street, two parallel roads of different class, one more road.
WorldChain ==
  [edges |-> << RealEdge(0, 40, 1), RealEdge(40, 0, 1),
                RealEdge(40, 100, 2), RealEdge(40, 100, 3),
                RealEdge(100, 160, 4) >>,
   frc |-> (1 :> 2) @@ (2 :> 7) @@ (3 :> 2) @@ (4 :> 2),
   wps |-> {0, 20, 100, 160, 5000},
   dists |-> {10, 100},
   via |-> {0, 100, 160},
   again |-> {20, 100}]

\* Long one-way roads: the way-point at 500 lies on the first.
WorldLong ==
  [edges |-> << RealEdge(0, 1200, 1), RealEdge(1200, 1500, 2),
                RealEdge(1500, 3000, 3) >>,
   frc |-> (1 :> 2) @@ (2 :> 2) @@ (3 :> 2),
   wps |-> {0, 500, 1500},
   dists |-> {100},
   via |-> {},
   again |-> {500, 1500}]

\* A long road leaves 10; a shorter road runs along its first part.
WorldFork ==
  [edges |-> << RealEdge(0, 10, 1), RealEdge(10, 150, 2), RealEdge(5, 105, 3) >>,
   frc |-> (1 :> 2) @@ (2 :> 2) @@ (3 :> 2),
   wps |-> {0, 100},
   dists |-> {100},
   via |-> {},
   again |-> {0, 100}]

\* A road of a low class (a high class number) between two ordinary roads.
WorldMinor ==
  [edges |-> << RealEdge(0, 5, 1), RealEdge(5, 65, 2), RealEdge(65, 125, 3) >>,
   frc |-> (1 :> 2) @@ (2 :> 7) @@ (3 :> 2),
   wps |-> {0, 125},
   dists |-> {100},
   via |-> {},
   again |-> {0, 125}]

\* Two roads in a row; the way-points lie inside them.
WorldSplit ==
  [edges |-> << RealEdge(0, 100, 1), RealEdge(100, 400, 2) >>,
   frc |-> (1 :> 2) @@ (2 :> 2),
   wps |-> {10, 300, 380},
   dists |-> {300},
   via |-> {},
   again |-> {10, 380}]

Worlds == {WorldChain, WorldLong, WorldFork, WorldMinor, WorldSplit}

Bearings == {64, 192}
Lfrcnps == {0, 4}
Offsets == {0, 15}

\* ------------------------------------------------------------ road graph
\* The projection of a point on the segment of a real edge, and the distance
\* from the point to it.
ProjectOnEdge(e, point) == Clamp(point, Min(e.start, e.end), Max(e.start, e.end))

DistanceToEdge(e, point) == DistanceOnEarth(point, ProjectOnEdge(e, point))

NearEdges(w, point) ==
  {i \in 1..Len(w.edges) : DistanceToEdge(w.edges[i], point) <= kClosestEdgesRadiusM}

\* The indices idx ordered by (distance to the point, index).
RECURSIVE OrderByDistance(_, _, _)
OrderByDistance(edges, idx, point) ==
  IF idx = {} THEN <<>>
  ELSE LET i == CHOOSE k \in idx : \A l \in idx \ {k} :
                  \/ DistanceToEdge(edges[k], point) < DistanceToEdge(edges[l], point)
                  \/ /\ DistanceToEdge(edges[k], point) = DistanceToEdge(edges[l], point)
                     /\ k < l
       IN <<i>> \o OrderByDistance(edges, idx \ {i}, point)

TakeClosest(w, point, order, count) ==
  [k \in 1..Min(count, Len(order)) |->
     [edge |-> w.edges[order[k]], junction |-> ProjectOnEdge(w.edges[order[k]], point)]]

\* FeaturesRoadGraph::FindClosestEdges: up to count nearest real edges with
\* the projection of the point on each.
FindClosestEdges(w, point, count) ==
  TakeClosest(w, point, OrderByDistance(w.edges, NearEdges(w, point), point), count)

\* IRoadGraph::AddFakeEdges: the junction is linked both ways to each
\* projection, and each projected edge is split at its projection.
AddFakeEdges(fk, junction, vicinity) ==
  fk \cup UNION { { MakeFake(vicinity[k].edge.start, vicinity[k].junction, TRUE),
                    MakeFake(vicinity[k].junction, vicinity[k].edge.end, TRUE),
                    MakeFake(junction, vicinity[k].junction, FALSE),
                    MakeFake(vicinity[k].junction, junction, FALSE) }
                  : k \in 1..Len(vicinity) }

\* The graph keeps its fake edges sorted; enumeration follows that order.
FakeLess(a, b) ==
  \/ a.start < b.start
  \/ a.start = b.start /\ a.end < b.end
  \/ a.start = b.start /\ a.end = b.end /\ ~a.partOfReal /\ b.partOfReal

RECURSIVE SortFakes(_)
SortFakes(S) ==
  IF S = {} THEN <<>>
  ELSE LET m == CHOOSE a \in S : \A b \in S \ {a} : FakeLess(a, b)
       IN <<m>> \o SortFakes(S \ {m})

GetRegularOutgoingEdges(w, j) == SelectSeq(w.edges, LAMBDA e : e.start = j)
GetRegularIngoingEdges(w, j) == SelectSeq(w.edges, LAMBDA e : e.end = j)
GetFakeOutgoingEdges(fk, j) == SortFakes({e \in fk : e.start = j})
GetFakeIngoingEdges(fk, j) == SortFakes({e \in fk : e.end = j})

\* RoadInfoGetter::Get(featureId).m_frc
GetFrc(w, e) == w.frc[e.featureId]

\* ---------------------------------------------------------------- inputs
WayPoint(p, d, b, l) ==
  [m_point |-> p, m_distanceToNextPointM |-> d, m_bearing |-> b, m_lfrcnp |-> l]

\* The location references a caller may pass for a world: way-points on the
\* world's positions; one declared distance and one bearing per reference.
WayPointSeqs(w) ==
  UNION { { [i \in 1..n |-> WayPoint(ps[i], d, b, ls[i])] :
              ps \in [1..n -> IF n = 2 THEN w.wps ELSE w.via],
              d \in w.dists, b \in Bearings,
              ls \in {l \in [1..n -> Lfrcnps] : l[n] = 0} }
          : n \in 2..MaxPoints }

Inputs(w) ==
  { [points |-> pts, positiveOffsetM |-> po, negativeOffsetM |-> no] :
      pts \in WayPointSeqs(w), po \in Offsets, no \in Offsets }

\* The references used when one router serves several calls: two way-points
\* on the world's positions for repeated calls, the three-point reference
\* whose middle way-point lies far from every road, and the three-point
\* references that start and end at the same position of the world, the
\* middle way-point being another one.
InputsAgain(w) ==
  { [points |-> << WayPoint(a, 100, 64, 0), WayPoint(b, 100, 64, 0) >>,
     positiveOffsetM |-> 0, negativeOffsetM |-> 0] : a \in w.again, b \in w.again }
  \cup
  { [points |-> << WayPoint(a, 100, 64, 0), WayPoint(5000, 100, 64, 0),
                  WayPoint(a, 100, 64, 0) >>,
     positiveOffsetM |-> 0, negativeOffsetM |-> 0] : a \in w.again }
  \cup
  { [points |-> << WayPoint(ab[1], 100, 64, 0), WayPoint(ab[2], 100, 64, 0),
                  WayPoint(ab[1], 100, 64, 0) >>,
     positiveOffsetM |-> 0, negativeOffsetM |-> 0] :
       ab \in {x \in w.via \X w.via : x[1] # x[2]} }

\* ------------------------------------------------------- search data types
Vertex(junction, stageStart, stageStartDistance, stage, bearingChecked) ==
  [m_junction |-> junction, m_stageStart |-> stageStart,
   m_stageStartDistance |-> stageStartDistance, m_stage |-> stage,
   m_bearingChecked |-> bearingChecked]

\* Router::Vertex::operator<
VertexLess(a, b) ==
  IF a.m_junction # b.m_junction THEN a.m_junction < b.m_junction
  ELSE IF a.m_stageStart # b.m_stageStart THEN a.m_stageStart < b.m_stageStart
  ELSE IF a.m_stageStartDistance # b.m_stageStartDistance
       THEN a.m_stageStartDistance < b.m_stageStartDistance
  ELSE IF a.m_stage # b.m_stage THEN a.m_stage < b.m_stage
  ELSE ~a.m_bearingChecked /\ b.m_bearingChecked

MakeNormal(u, v, raw) == [m_u |-> u, m_v |-> v, m_raw |-> raw, m_isSpecial |-> FALSE]

MakeSpecial(u, v) ==
  [m_u |-> u, m_v |-> v, m_raw |-> MakeFake(u.m_junction, v.m_junction, FALSE),
   m_isSpecial |-> TRUE]

\* Score: m_distance in metres, m_penalty in thousandths.
ZeroScore == [m_distance |-> 0, m_penalty |-> 0]

AddDistance(s, p) == [s EXCEPT !.m_distance = @ + p]

AddFakePenalty(s, p, partOfReal) ==
  [s EXCEPT !.m_penalty =
     @ + (IF partOfReal THEN kFakeCoeffMilli ELSE kTrueFakeCoeff * PenaltyScale) * p]

AddIntermediateErrorPenalty(s, p) ==
  [s EXCEPT !.m_penalty = @ + kIntermediateErrorCoeff * PenaltyScale * p]

AddDistanceErrorPenalty(s, p) ==
  [s EXCEPT !.m_penalty = @ + kDistanceErrorCoeff * PenaltyScale * p]

\* angle = min(diff, 256 - diff) * 2 pi / 256 radians, so the penalty
\* kBearingErrorCoeff * angle * kBearingDist is 3.06796 per bucket.
AddBearingPenalty(s, expected, actual) ==
  [s EXCEPT !.m_penalty =
     @ + Min(Abs(expected - actual), kNumBuckets - Abs(expected - actual))
         * kBearingBucketMilli]

GetScore(s) == s.m_distance * PenaltyScale + s.m_penalty

\* Score::operator<
ScoreLess(a, b) ==
  IF GetScore(a) # GetScore(b) THEN GetScore(a) < GetScore(b)
  ELSE IF a.m_distance # b.m_distance THEN a.m_distance < b.m_distance
  ELSE a.m_penalty < b.m_penalty

\* operator< of std::pair<Score, Vertex>, the order of the priority queue.
StateLess(p, q) ==
  \/ ScoreLess(p[1], q[1])
  \/ ~ScoreLess(q[1], p[1]) /\ VertexLess(p[2], q[2])

\* ------------------------------------------------------------------ state
VARIABLES
  world,              \* the road graph snapshot and the caller's input domain
  fakes,              \* the graph's fake edges
  m_points, m_positiveOffsetM, m_negativeOffsetM,
  m_pivots, m_sourceJunction, m_targetJunction,
  m_outgoingCache, m_ingoingCache,
  queue, scores, links,   \* locals of FindPath
  found,              \* the search edges read off the back-links
  path, result,       \* the caller's output vector and Go's return value
  pc,                 \* "idle", "search", "done", "abort"
  popped,             \* the entry taken from the queue by the last iteration
  paid,               \* per vertex: AddBearingPenalty calls per way-point on its back-link path
  pops,               \* iterations of the loop of FindPath in the current call
  expanded,           \* the vertices the current call popped non-stale and expanded
  calls,              \* number of Go calls started
  prior,              \* contents of the output vector when the current call began
  history             \* per way-points and offsets: the outcome of the first call with them

vars == << world, fakes, m_points, m_positiveOffsetM, m_negativeOffsetM,
           m_pivots, m_sourceJunction, m_targetJunction,
           m_outgoingCache, m_ingoingCache, queue, scores, links, found,
           path, result, pc, popped, paid, pops, expanded, calls, prior, history >>

routerVars == << m_points, m_positiveOffsetM, m_negativeOffsetM,
                 m_pivots, m_sourceJunction, m_targetJunction >>
cacheVars == << m_outgoingCache, m_ingoingCache >>
callVars == << calls, prior, history >>

NoPop == [kind |-> "none"]

\* ------------------------------------------------------------ Router::Init
PivotPoints(vicinity) ==
  UNION { {vicinity[k].edge.start, vicinity[k].edge.end} : k \in 1..Len(vicinity) }

\* The loop over the intermediate way-points: one pivot list per way-point,
\* stopping after the first empty one.
RECURSIVE BuildPivots(_, _, _, _)
RECURSIVE PivotsStep(_, _, _, _, _)
\* PivotsStep without the return on an empty pivot list.
PivotsStepPastEmpty(w, points, i, acc, ps) ==
  BuildPivots(w, points, i + 1, Append(acc, ps))

PivotsStep(w, points, i, acc, ps) ==
  IF ps = {} THEN [ok |-> FALSE, pivots |-> Append(acc, ps)]
  ELSE BuildPivots(w, points, i + 1, Append(acc, ps))

BuildPivots(w, points, i, acc) ==
  IF i >= Len(points) THEN [ok |-> TRUE, pivots |-> acc]
  ELSE PivotsStep(w, points, i, acc,
                  PivotPoints(FindClosestEdges(w, points[i].m_point, kMaxRoadCandidates)))

\* The fake edges the graph holds after a successful Init.
InitFakes(w, src, tgt) ==
  AddFakeEdges(AddFakeEdges({}, src, FindClosestEdges(w, src, kMaxRoadCandidates)),
               tgt, FindClosestEdges(w, tgt, kMaxRoadCandidates))

InitOutcome(w, points, built) ==
  IF built.ok
  THEN [ok |-> TRUE, pivots |-> Append(built.pivots, {points[Len(points)].m_point}),
        fakes |-> InitFakes(w, points[1].m_point, points[Len(points)].m_point),
        source |-> points[1].m_point, target |-> points[Len(points)].m_point]
  ELSE [ok |-> FALSE, pivots |-> built.pivots, fakes |-> {},
        source |-> m_sourceJunction, target |-> m_targetJunction]

\* RouterInit without m_pivots.clear(): the lists are added to those of the
\* call before.
RouterInitKeepsPivots(w, points) ==
  InitOutcome(w, points, BuildPivots(w, points, 2, m_pivots))

\* Router::Init as a function of the graph and the way-points.
RouterInit(w, points) == InitOutcome(w, points, BuildPivots(w, points, 2, <<>>))

\* ------------------------------------------------------- search predicates
IsFinalVertex(u) == u.m_stage = Len(m_points) - 1

\* Router::NeedToCheckBearing
NeedToCheckBearing(u, distanceM) ==
  IF IsFinalVertex(u) \/ u.m_bearingChecked THEN FALSE
  ELSE distanceM >= u.m_stageStartDistance + kBearingDist

RECURSIVE MinDistance(_, _, _)
MinDistance(pivots, point, potential) ==
  IF pivots = {} THEN potential
  ELSE LET pivot == CHOOSE x \in pivots : TRUE
       IN MinDistance(pivots \ {pivot}, point,
                      Min(potential, DistanceOnEarth(pivot, point)))

\* Router::GetPotential; numeric_limits<double>::max() is any value above
\* every distance of the world.  Its CHECKs hold after a successful Init:
\* a non-final stage has a pivot list, and Init left no list empty.
GetPotential(u) ==
  IF IsFinalVertex(u) THEN 0
  ELSE MinDistance(m_pivots[u.m_stage + 1], u.m_junction, 1000 * PenaltyScale)

NearNextStage(u, pi) == u.m_stage < Len(m_pivots) /\ pi = 0

\* MayMoveToNextStage without the test of m_bearingChecked.
MayMoveUnchecked(u, pi) == NearNextStage(u, pi)

MayMoveToNextStage(u, pi) == NearNextStage(u, pi) /\ u.m_bearingChecked

\* PassesRestriction with the comparison turned round.
PassesRestrictionInverted(edge, restriction) ==
  IF edge.isFake THEN TRUE
  ELSE GetFrc(world, edge) >= restriction + kTolerance

\* Router::PassesRestriction
PassesRestriction(edge, restriction) ==
  IF edge.isFake THEN TRUE
  ELSE GetFrc(world, edge) <= restriction + kTolerance

\* ReducedCost with the two potentials exchanged.
ReducedCostExchanged(w, piU, piV) == Max(w + piU - piV, 0)

\* The reduced cost added to Score::m_distance for a step of real length w.
ReducedCost(w, piU, piV) == Max(w + piV - piU, 0)

\* Router::GetReverseBearing
RECURSIVE ReverseBearingPoint(_, _, _)
ReverseBearingPoint(curr, passed, lk) ==
  IF curr \notin DOMAIN lk THEN curr.m_junction
  ELSE IF lk[curr].u.m_stage # curr.m_stage THEN curr.m_junction
  ELSE IF passed + GetWeight(lk[curr].e.m_raw) >= kBearingDist
       THEN PointAtSegment(lk[curr].e.m_raw.end, lk[curr].e.m_raw.start,
                           kBearingDist - passed)
  ELSE ReverseBearingPoint(lk[curr].u, passed + GetWeight(lk[curr].e.m_raw), lk)

GetReverseBearing(u, lk) == Bearing(u.m_junction, ReverseBearingPoint(u, 0, lk))

\* ------------------------------------------------------------- edge cache
\* Router::GetEdges: the regular edges come from the cache when the junction
\* is cached and from the graph otherwise; the fake edges always from the graph.
GetEdges(u, regular, fake, cache) ==
  (IF u \in DOMAIN cache THEN cache[u] ELSE regular) \o fake

\* CacheAfter storing the whole enumeration, the fake edges included.
CacheAfterWithFakes(u, regular, cache) ==
  IF u \in DOMAIN cache THEN cache
  ELSE (u :> regular \o SortFakes({e \in fakes : e.start = u \/ e.end = u})) @@ cache

\* The cache after GetEdges.
CacheAfter(u, regular, cache) ==
  IF u \in DOMAIN cache THEN cache ELSE (u :> regular) @@ cache

GetOutgoingEdges(u) ==
  GetEdges(u, GetRegularOutgoingEdges(world, u), GetFakeOutgoingEdges(fakes, u),
           m_outgoingCache)

GetIngoingEdges(u) ==
  GetEdges(u, GetRegularIngoingEdges(world, u), GetFakeIngoingEdges(fakes, u),
           m_ingoingCache)

\* Router::ForEachEdge: the edges the callback is invoked on, in order.
ForEachEdge(u, outgoing, restriction) ==
  SelectSeq(IF outgoing THEN GetOutgoingEdges(u.m_junction) ELSE GetIngoingEdges(u.m_junction),
            LAMBDA edge : PassesRestriction(edge, restriction))

ForEachNonFakeEdge(u, outgoing, restriction) ==
  SelectSeq(ForEachEdge(u, outgoing, restriction), LAMBDA edge : ~edge.isFake)

ClosestEdgeList(vicinity) == [k \in 1..Len(vicinity) |-> vicinity[k].edge]

\* Router::ForEachNonFakeClosestEdge
ForEachNonFakeClosestEdge(u, restriction) ==
  SelectSeq(ClosestEdgeList(FindClosestEdges(world, u.m_junction, kMaxRoadCandidates)),
            LAMBDA edge : ~edge.isFake /\ PassesRestriction(edge, restriction))

\* --------------------------------------------------------- the main loop
\* queue.top(): the least entry in the order of std::pair<Score, Vertex>.
Top(q) == CHOOSE p \in q : \A r \in q \ {p} : StateLess(p, r)

\* pushVertex that records the score and the queue entry but not the link.
PushVertexKeepsLink(acc, u, v, sv, e, pd) ==
  IF (v \notin DOMAIN acc.scores \/ GetScore(acc.scores[v]) > GetScore(sv)) /\ u # v
  THEN [acc EXCEPT !.scores = (v :> sv) @@ acc.scores,
                   !.queue = acc.queue \cup {<<sv, v>>},
                   !.paid = (v :> pd) @@ acc.paid]
  ELSE acc

\* pushVertex accepting a score that is no better, a step from a vertex to
\* itself included.
PushVertexNotStrict(acc, u, v, sv, e, pd) ==
  IF v \notin DOMAIN acc.scores \/ GetScore(acc.scores[v]) >= GetScore(sv)
  THEN [acc EXCEPT !.scores = (v :> sv) @@ acc.scores,
                   !.links = (v :> [u |-> u, e |-> e]) @@ acc.links,
                   !.queue = acc.queue \cup {<<sv, v>>},
                   !.paid = (v :> pd) @@ acc.paid]
  ELSE acc

\* The lambda pushVertex of FindPath, on the locals acc.
PushVertex(acc, u, v, sv, e, pd) ==
  IF (v \notin DOMAIN acc.scores \/ GetScore(acc.scores[v]) > GetScore(sv)) /\ u # v
  THEN [acc EXCEPT !.scores = (v :> sv) @@ acc.scores,
                   !.links = (v :> [u |-> u, e |-> e]) @@ acc.links,
                   !.queue = acc.queue \cup {<<sv, v>>},
                   !.paid = (v :> pd) @@ acc.paid]
  ELSE acc

\* One more AddBearingPenalty call for way-point k (0-based).
PaidOnce(pd, k) == [pd EXCEPT ![k + 1] = @ + 1]

\* BearingCheckStep that adds the penalty also at the start of the stage.
BearingCheckStepAlways(acc, u, su, piU) ==
  IF NearNextStage(u, piU) /\ ~u.m_bearingChecked
  THEN PushVertex(acc, u, [u EXCEPT !.m_bearingChecked = TRUE],
                  AddBearingPenalty(su, m_points[u.m_stage + 1].m_bearing,
                                    Bearing(u.m_stageStart, u.m_junction)),
                  MakeSpecial(u, [u EXCEPT !.m_bearingChecked = TRUE]),
                  PaidOnce(acc.paid[u], u.m_stage))
  ELSE acc

\* The bearing-check special edge out of u.
BearingCheckStep(acc, u, su, piU) ==
  IF NearNextStage(u, piU) /\ ~u.m_bearingChecked
  THEN PushVertex(acc, u, [u EXCEPT !.m_bearingChecked = TRUE],
                  IF u.m_junction # u.m_stageStart
                  THEN AddBearingPenalty(su, m_points[u.m_stage + 1].m_bearing,
                                         Bearing(u.m_stageStart, u.m_junction))
                  ELSE su,
                  MakeSpecial(u, [u EXCEPT !.m_bearingChecked = TRUE]),
                  IF u.m_junction # u.m_stageStart
                  THEN PaidOnce(acc.paid[u], u.m_stage) ELSE acc.paid[u])
  ELSE acc

\* The score of the vertex v a stage advance leads to.
AdvanceBearing(s, u, v, lk) ==
  IF IsFinalVertex(v)
  THEN AddBearingPenalty(s, m_points[Len(m_points)].m_bearing, GetReverseBearing(u, lk))
  ELSE s

\* AdvanceScore without the potential of the next stage.
AdvanceScoreNoDistance(su, u, v, piU, lk) ==
  AdvanceBearing(
    AddIntermediateErrorPenalty(
      su, DistanceOnEarth(v.m_junction, m_points[v.m_stage + 1].m_point)),
    u, v, lk)

AdvanceScore(su, u, v, piU, lk) ==
  AdvanceBearing(
    AddIntermediateErrorPenalty(
      AddDistance(su, ReducedCost(0, piU, GetPotential(v))),
      DistanceOnEarth(v.m_junction, m_points[v.m_stage + 1].m_point)),
    u, v, lk)

AdvanceTo(acc, u, su, piU, v) ==
  PushVertex(acc, u, v, AdvanceScore(su, u, v, piU, acc.links), MakeSpecial(u, v),
             IF IsFinalVertex(v) THEN PaidOnce(acc.paid[u], v.m_stage) ELSE acc.paid[u])

\* StageAdvanceStep that puts the start of the new stage kBearingDist ahead.
StageAdvanceStepAhead(acc, u, su, piU, ud) ==
  IF MayMoveToNextStage(u, piU)
  THEN AdvanceTo(acc, u, su, piU,
                 Vertex(u.m_junction, u.m_junction, ud + kBearingDist, u.m_stage + 1, FALSE))
  ELSE acc

\* The stage-advance special edge out of u.
StageAdvanceStep(acc, u, su, piU, ud) ==
  IF MayMoveToNextStage(u, piU)
  THEN AdvanceTo(acc, u, su, piU, Vertex(u.m_junction, u.m_junction, ud, u.m_stage + 1, FALSE))
  ELSE acc

\* The three conditional penalties of the edge loop.
EdgeBearing(s, due, u, p) ==
  IF due /\ u.m_stageStart # p
  THEN AddBearingPenalty(s, m_points[u.m_stage + 1].m_bearing, Bearing(u.m_stageStart, p))
  ELSE s

\* EdgeDistanceError charging the whole edge once the declared length is
\* passed.
EdgeDistanceErrorWhole(s, excess, w) ==
  IF excess > 0 THEN AddDistanceErrorPenalty(s, w) ELSE s

EdgeDistanceError(s, excess, w) ==
  IF excess > 0 THEN AddDistanceErrorPenalty(s, Min(excess, w)) ELSE s

EdgeFakePenalty(s, edge, w) ==
  IF edge.isFake THEN AddFakePenalty(s, w, edge.partOfReal) ELSE s

\* The score of the end vertex of a graph edge of length w out of u; due
\* tells whether the bearing is checked on this edge, at the point p.
EdgeScore(su, u, piU, ud, edge, w, due, p) ==
  EdgeFakePenalty(
    EdgeDistanceError(
      EdgeBearing(
        AddDistance(su, ReducedCost(w, piU, GetPotential([u EXCEPT !.m_junction = edge.end]))),
        due, u, p),
      ud + w - u.m_stageStartDistance - m_points[u.m_stage + 1].m_distanceToNextPointM,
      w),
    edge, w)

\* EdgeTarget without v.m_bearingChecked = true.
EdgeTargetUnmarked(u, edge, due) == [u EXCEPT !.m_junction = edge.end]

\* The vertex v a graph edge out of u leads to.
EdgeTarget(u, edge, due) ==
  [u EXCEPT !.m_junction = edge.end, !.m_bearingChecked = @ \/ due]

EdgeStepDue(acc, u, su, piU, ud, edge, w, due, p) ==
  IF acc.failed THEN acc
  ELSE IF due /\ NeedToCheckBearing(u, ud) THEN [acc EXCEPT !.failed = TRUE]
  ELSE PushVertex(acc, u, EdgeTarget(u, edge, due),
                  EdgeScore(su, u, piU, ud, edge, w, due, p),
                  MakeNormal(u, EdgeTarget(u, edge, due), edge),
                  IF due /\ u.m_stageStart # p
                  THEN PaidOnce(acc.paid[u], u.m_stage) ELSE acc.paid[u])

\* EdgeStep that decides whether the check is due by the distance to u.
EdgeStepLate(acc, u, su, piU, ud, edge) ==
  EdgeStepDue(acc, u, su, piU, ud, edge, GetWeight(edge),
              NeedToCheckBearing([u EXCEPT !.m_junction = edge.end], ud),
              PointAtSegment(edge.start, edge.end,
                             ud + GetWeight(edge) - u.m_stageStartDistance - kBearingDist))

\* The body of the edge loop for one graph edge out of u.
EdgeStep(acc, u, su, piU, ud, edge) ==
  EdgeStepDue(acc, u, su, piU, ud, edge, GetWeight(edge),
              NeedToCheckBearing([u EXCEPT !.m_junction = edge.end], ud + GetWeight(edge)),
              PointAtSegment(edge.start, edge.end,
                             ud + GetWeight(edge) - u.m_stageStartDistance - kBearingDist))

RECURSIVE EdgeLoop(_, _, _, _, _, _)
EdgeLoop(acc, u, su, piU, ud, es) ==
  IF es = <<>> THEN acc
  ELSE EdgeLoop(EdgeStep(acc, u, su, piU, ud, Head(es)), u, su, piU, ud, Tail(es))

\* The real distance to u as FindPath recovers it.
RealDistance(su, u) ==
  su.m_distance + GetPotential(Vertex(m_sourceJunction, m_sourceJunction, 0, 0, FALSE))
    - GetPotential(u)

\* TooFar without the test.
TooFarNever(u, ud) == FALSE

\* The pruning test of FindPath.
TooFar(u, ud) ==
  ud > u.m_stageStartDistance + m_points[u.m_stage + 1].m_distanceToNextPointM
         + Max(kDistanceAccuracyM, m_points[u.m_stage + 1].m_distanceToNextPointM)

\* The locals of FindPath after the expansion of u.
Expand(acc, u, su, piU, ud) ==
  EdgeLoop(StageAdvanceStep(BearingCheckStep(acc, u, su, piU), u, su, piU, ud),
           u, su, piU, ud, ForEachEdge(u, TRUE, m_points[u.m_stage + 1].m_lfrcnp))

\* --------------------------------------------------------- reconstruction
ToPair(e) == <<e.m_raw.start, e.m_raw.end>>
ToPairRev(e) == <<e.m_raw.end, e.m_raw.start>>

MapSeq(s, Op(_)) == [i \in 1..Len(s) |-> Op(s[i])]

\* Router::FindPrefixLengthToConsume on a range of point pairs.
RECURSIVE FindPrefixLengthToConsume(_, _)

\* FindPrefixLengthToConsume with the break test turned round.
RECURSIVE PrefixLengthBreakInverted(_, _)
PrefixLengthBreakInverted(pairs, lengthM) ==
  IF pairs = <<>> \/ lengthM <= 0 THEN 0
  ELSE IF 2 * lengthM >= DistanceOnEarth(Head(pairs)[1], Head(pairs)[2]) THEN 0
  ELSE 1 + PrefixLengthBreakInverted(
             Tail(pairs), lengthM - DistanceOnEarth(Head(pairs)[1], Head(pairs)[2]))

\* FindPrefixLengthToConsume with the offset never reduced.
RECURSIVE PrefixLengthNoSubtraction(_, _)
PrefixLengthNoSubtraction(pairs, lengthM) ==
  IF pairs = <<>> \/ lengthM <= 0 THEN 0
  ELSE IF 2 * lengthM < DistanceOnEarth(Head(pairs)[1], Head(pairs)[2]) THEN 0
  ELSE 1 + PrefixLengthNoSubtraction(Tail(pairs), lengthM)

FindPrefixLengthToConsume(pairs, lengthM) ==
  IF pairs = <<>> \/ lengthM <= 0 THEN 0
  ELSE IF 2 * lengthM < DistanceOnEarth(Head(pairs)[1], Head(pairs)[2]) THEN 0
  ELSE 1 + FindPrefixLengthToConsume(
             Tail(pairs), lengthM - DistanceOnEarth(Head(pairs)[1], Head(pairs)[2]))

\* The two offset blocks of ReconstructPath.
TrimFront(es, positiveOffsetM) ==
  SubSeq(es, FindPrefixLengthToConsume(MapSeq(es, ToPair), positiveOffsetM) + 1, Len(es))

TrimBack(es, negativeOffsetM) ==
  SubSeq(es, 1,
         Len(es) - FindPrefixLengthToConsume(MapSeq(ReverseSeq(es), ToPairRev),
                                             negativeOffsetM))

\* TrimOffsets without the erasure of the special edges.
TrimOffsetsWithSpecial(es, positiveOffsetM, negativeOffsetM) ==
  TrimBack(TrimFront(es, positiveOffsetM), negativeOffsetM)

\* The search edges left after the special edges are erased and the offsets
\* consumed.
TrimOffsets(es, positiveOffsetM, negativeOffsetM) ==
  TrimBack(TrimFront(SelectSeq(es, LAMBDA e : ~e.m_isSpecial), positiveOffsetM),
           negativeOffsetM)

\* A ratio num / den with den > 0.
Ratio(num, den) == [num |-> num, den |-> den]
RatioLess(a, b) == a.num * b.den < b.num * a.den
RatioAtLeast(a, num, den) == a.num * den >= num * a.den

\* The length covered by the leading pairs that lie on u-v and run along it.
RECURSIVE MatchedLength(_, _, _)
MatchedLength(u, v, pairs) ==
  IF pairs = <<>> THEN 0
  ELSE IF \/ ~IsPointOnSegmentEps(Head(pairs)[1], u, v)
          \/ ~IsPointOnSegmentEps(Head(pairs)[2], u, v) THEN 0
  ELSE IF DotProduct(v - u, Head(pairs)[2] - Head(pairs)[1]) < 0 THEN 0
  ELSE DistanceOnEarth(Head(pairs)[1], Head(pairs)[2]) + MatchedLength(u, v, Tail(pairs))

\* Router::GetMatchingScore
GetMatchingScore(u, v, pairs) ==
  IF DistanceOnEarth(u, v) = 0 THEN Ratio(0, 1)
  ELSE Ratio(Clamp(MatchedLength(u, v, pairs), 0, DistanceOnEarth(u, v)),
             DistanceOnEarth(u, v))

\* Router::ForStagePrefix: the index the callback is invoked on, or 0.
RECURSIVE StagePrefixEnd(_, _, _)
StagePrefixEnd(es, i, stage) ==
  IF i <= Len(es) /\ es[i].m_raw.isFake /\ es[i].m_u.m_stage = stage
     /\ es[i].m_v.m_stage = stage
  THEN StagePrefixEnd(es, i + 1, stage)
  ELSE i

StagePrefixCall(es, b) == IF b <= Len(es) /\ ~es[b].m_raw.isFake THEN b ELSE 0

ForStagePrefix(es, stage) == StagePrefixCall(es, StagePrefixEnd(es, 1, stage))

\* The callbacks of ReconstructPath keep the candidate with the greatest
\* matching score, the first one on a tie.
KeepBetter(best, score, edge) ==
  IF RatioLess(best.score, score) THEN [score |-> score, edge |-> edge] ELSE best

RECURSIVE BestFront(_, _, _)
BestFront(cands, pairs, best) ==
  IF cands = <<>> THEN best
  ELSE BestFront(Tail(cands), pairs,
                 KeepBetter(best,
                            GetMatchingScore(Head(cands).end, Head(cands).start, pairs),
                            GetReverseEdge(Head(cands))))

RECURSIVE BestBack(_, _, _)
BestBack(cands, pairs, best) ==
  IF cands = <<>> THEN best
  ELSE BestBack(Tail(cands), pairs,
                KeepBetter(best,
                           GetMatchingScore(Head(cands).start, Head(cands).end, pairs),
                           Head(cands)))

NoMatch == [score |-> Ratio(-1, 1), edge |-> MakeFake(0, 0, FALSE)]

FrontMatchAt(es, b) ==
  IF b = 0 THEN NoMatch
  ELSE BestFront(ForEachNonFakeEdge(es[b].m_u, FALSE, m_points[1].m_lfrcnp),
                 MapSeq(ReverseSeq(SubSeq(es, 1, b - 1)), ToPairRev), NoMatch)

\* The front edge block of ReconstructPath: frontEdgeScore and frontEdge.
FrontMatch(es) == FrontMatchAt(es, ForStagePrefix(es, 0))

BackMatchAt(es, b) ==
  IF b > Len(es) THEN NoMatch
  ELSE BestBack(ForEachNonFakeEdge(es[b].m_v, TRUE, m_points[Len(m_points) - 1].m_lfrcnp),
                MapSeq(SubSeq(es, b + 1, Len(es)), ToPair), NoMatch)

\* The position in es of the edge the back callback is invoked on, or
\* Len(es) + 1.
BackIndex(es) == Len(es) + 1 - ForStagePrefix(ReverseSeq(es), Len(m_points) - 2)

\* The back edge block of ReconstructPath: backEdgeScore and backEdge.
BackMatch(es) == BackMatchAt(es, BackIndex(es))

\* RealPart without the test for fake edges.
RealPartUnfiltered(es) == MapSeq(es, LAMBDA e : e.m_raw)

\* The raw edges of the non-fake search edges.
RealPart(es) == MapSeq(SelectSeq(es, LAMBDA e : ~e.m_raw.isFake), LAMBDA e : e.m_raw)

\* FrontAttachedTo without the threshold on the matching score.
FrontAttachedAnyScore(p, fm) == p # <<>> /\ p[1] # fm.edge

FrontAttachedTo(p, fm) == RatioAtLeast(fm.score, 1, 2) /\ p # <<>> /\ p[1] # fm.edge

BackAttachedTo(p, bm) == RatioAtLeast(bm.score, 1, 2) /\ p # <<>> /\ p[Len(p)] # bm.edge

AttachFront(p, fm) == IF FrontAttachedTo(p, fm) THEN <<fm.edge>> \o p ELSE p

AttachBack(p, bm) == IF BackAttachedTo(p, bm) THEN Append(p, bm.edge) ELSE p

\* ----------------------------------------------------- single-edge fallback
RECURSIVE InsertSorted(_, _)
InsertSorted(sorted, c) ==
  IF sorted = <<>> THEN <<c>>
  ELSE IF c[1] < Head(sorted)[1] \/ (c[1] = Head(sorted)[1] /\ c[2] < Head(sorted)[2])
       THEN <<c>> \o sorted
       ELSE <<Head(sorted)>> \o InsertSorted(Tail(sorted), c)

RECURSIVE SortCovs(_)
SortCovs(covs) ==
  IF covs = <<>> THEN <<>> ELSE InsertSorted(SortCovs(Tail(covs)), Head(covs))

\* RunEnd taking the end of the latest interval for the end of the run.
RECURSIVE RunEndLatest(_, _, _)
RunEndLatest(covs, j, last) ==
  IF j <= Len(covs) /\ covs[j][1] <= last
  THEN RunEndLatest(covs, j + 1, covs[j][2])
  ELSE [j |-> j, last |-> last]

\* The inner loop of GetCoverage: extend the run that starts at covs[i].
RECURSIVE RunEnd(_, _, _)
RunEnd(covs, j, last) ==
  IF j <= Len(covs) /\ covs[j][1] <= last
  THEN RunEnd(covs, j + 1, Max(last, covs[j][2]))
  ELSE [j |-> j, last |-> last]

\* The outer loop of GetCoverage.
RECURSIVE UnionLength(_, _)
RECURSIVE UnionAfterRun(_, _, _)
UnionAfterRun(covs, i, run) == (run.last - covs[i][1]) + UnionLength(covs, run.j)

UnionLength(covs, i) ==
  IF i > Len(covs) THEN 0
  ELSE UnionAfterRun(covs, i, RunEnd(covs, i, covs[i][2]))

\* The interval a search edge induces on the candidate u-v, in metres from u
\* (the code's sp and tp times the candidate's length).
CoverageInterval(u, v, e) ==
  IF v >= u
  THEN << Clamp(Min(e.m_u.m_junction - u, e.m_v.m_junction - u), 0, v - u),
          Clamp(Max(e.m_u.m_junction - u, e.m_v.m_junction - u), 0, v - u) >>
  ELSE << Clamp(Min(u - e.m_u.m_junction, u - e.m_v.m_junction), 0, u - v),
          Clamp(Max(u - e.m_u.m_junction, u - e.m_v.m_junction), 0, u - v) >>

Qualifies(u, v, e) ==
  /\ IsPointOnSegmentEps(e.m_u.m_junction, u, v)
  /\ IsPointOnSegmentEps(e.m_v.m_junction, u, v)
  /\ ~(DotProduct(v - u, e.m_v.m_junction - e.m_u.m_junction) < 0)

\* Router::GetCoverage, as the ratio of the covered length to the length.
GetCoverage(u, v, es) ==
  IF DistanceOnEarth(u, v) < 1 THEN Ratio(0, 1)
  ELSE Ratio(UnionLength(SortCovs(MapSeq(SelectSeq(es, LAMBDA e : Qualifies(u, v, e)),
                                         LAMBDA e : CoverageInterval(u, v, e))), 1),
             DistanceOnEarth(u, v))

\* The candidates checkEdge is called on, in call order.
RECURSIVE ApproximationCandidates(_)
ApproximationCandidates(es) ==
  IF es = <<>> THEN <<>>
  ELSE ForEachNonFakeClosestEdge(Head(es).m_u, m_points[Head(es).m_u.m_stage + 1].m_lfrcnp)
         \o ForEachNonFakeClosestEdge(Head(es).m_v,
                                      m_points[Head(es).m_u.m_stage + 1].m_lfrcnp)
         \o ApproximationCandidates(Tail(es))

\* checkEdge without the test of the fraction against kThreshold.
CheckEdgeAnyFraction(best, edge, fraction) ==
  IF (GetWeight(edge) * fraction.num) \div fraction.den >= best.coverage
  THEN [coverage |-> (GetWeight(edge) * fraction.num) \div fraction.den, edge |-> edge]
  ELSE best

\* The lambda checkEdge; coverage is weight * fraction, which on the line is
\* the covered length.
CheckEdge(best, edge, fraction) ==
  IF /\ RatioAtLeast(fraction, 8, 10)
     /\ (GetWeight(edge) * fraction.num) \div fraction.den >= best.coverage
  THEN [coverage |-> (GetWeight(edge) * fraction.num) \div fraction.den, edge |-> edge]
  ELSE best

RECURSIVE BestCovering(_, _, _)
BestCovering(cands, es, best) ==
  IF cands = <<>> THEN best
  ELSE BestCovering(Tail(cands), es,
                    CheckEdge(best, Head(cands),
                              GetCoverage(Head(cands).start, Head(cands).end, es)))

NoCovering == [coverage |-> -1, edge |-> MakeFake(0, 0, FALSE)]

\* The CHECKs of FindSingleEdgeApproximation.
ApproximationChecks(es) ==
  /\ \A i \in 1..Len(es) : es[i].m_raw.isFake
  /\ \A i \in 1..Len(es) : es[i].m_u.m_stage = es[i].m_v.m_stage

ApproximationResult(expectedLength, best, old) ==
  IF expectedLength = 0 THEN old
  ELSE IF 2 * best.coverage >= expectedLength THEN <<best.edge>>
  ELSE old

\* Router::FindSingleEdgeApproximation: the new contents of path.
FindSingleEdgeApproximation(es, old) ==
  ApproximationResult(SumSeq(MapSeq(es, LAMBDA e : GetWeight(e.m_raw))),
                      BestCovering(ApproximationCandidates(es), es, NoCovering), old)

Fallback(es, p) == IF p = <<>> THEN FindSingleEdgeApproximation(es, p) ELSE p

\* The output vector ReconstructPath builds from the trimmed search edges.
PathOf(es) ==
  Fallback(es, AttachBack(AttachFront(RealPart(es), FrontMatch(es)), BackMatch(es)))

\* Router::ReconstructPath: the output vector for the search edges es.
ReconstructPath(es, positiveOffsetM, negativeOffsetM) ==
  PathOf(TrimOffsets(es, positiveOffsetM, negativeOffsetM))

\* The edge caches after ReconstructPath.
IngoingCacheAfter(es, b) ==
  IF b = 0 THEN m_ingoingCache
  ELSE CacheAfter(es[b].m_u.m_junction,
                  GetRegularIngoingEdges(world, es[b].m_u.m_junction), m_ingoingCache)

OutgoingCacheAfter(es, b) ==
  IF b > Len(es) THEN m_outgoingCache
  ELSE CacheAfter(es[b].m_v.m_junction,
                  GetRegularOutgoingEdges(world, es[b].m_v.m_junction), m_outgoingCache)

\* ---------------------------------------------------------------- actions
SourceVertex == Vertex(m_sourceJunction, m_sourceJunction, 0, 0, FALSE)

CallKey == [points |-> m_points, positiveOffsetM |-> m_positiveOffsetM,
            negativeOffsetM |-> m_negativeOffsetM]

Record(h, key, outcome) == IF key \in DOMAIN h THEN h ELSE (key :> outcome) @@ h

Init ==
  /\ world \in Worlds
  /\ fakes = {}
  /\ m_points = <<>>
  /\ m_positiveOffsetM = 0
  /\ m_negativeOffsetM = 0
  /\ m_pivots = <<>>
  /\ m_sourceJunction = 0
  /\ m_targetJunction = 0
  /\ m_outgoingCache = EmptyMap
  /\ m_ingoingCache = EmptyMap
  /\ queue = {}
  /\ scores = EmptyMap
  /\ links = EmptyMap
  /\ found = <<>>
  /\ path = <<>>
  /\ result = FALSE
  /\ pc = "idle"
  /\ popped = NoPop
  /\ paid = EmptyMap
  /\ pops = 0
  /\ expanded = {}
  /\ calls = 0
  /\ prior = <<>>
  /\ history = EmptyMap

\* Go with the arguments in and the output vector vec: Init, and on success
\* the set-up of the locals of FindPath with the source vertex s.
Begin(in, vec, init, s) ==
  /\ m_points' = in.points
  /\ m_positiveOffsetM' = in.positiveOffsetM
  /\ m_negativeOffsetM' = in.negativeOffsetM
  /\ fakes' = init.fakes
  /\ m_pivots' = init.pivots
  /\ m_sourceJunction' = init.source
  /\ m_targetJunction' = init.target
  /\ path' = vec
  /\ prior' = vec
  /\ calls' = calls + 1
  /\ found' = <<>>
  /\ popped' = NoPop
  /\ pops' = 0
  /\ expanded' = {}
  /\ links' = EmptyMap
  /\ result' = FALSE
  /\ IF init.ok
     THEN /\ scores' = (s :> ZeroScore)
          /\ queue' = {<<ZeroScore, s>>}
          /\ paid' = (s :> [k \in 1..Len(in.points) |-> 0])
          /\ pc' = "search"
          /\ history' = history
     ELSE /\ scores' = EmptyMap
          /\ queue' = {}
          /\ paid' = EmptyMap
          /\ pc' = "done"
          /\ history' = Record(history,
                               [points |-> in.points, positiveOffsetM |-> in.positiveOffsetM,
                                negativeOffsetM |-> in.negativeOffsetM],
                               [result |-> FALSE, path |-> vec])

\* Router::Go up to the first iteration of the loop of FindPath.  The caller
\* passes a fresh output vector or the one the previous call left.
Go(inputs, limit) ==
  /\ pc \in {"idle", "done"}
  /\ calls < limit
  /\ \E in \in inputs, reuse \in BOOLEAN :
       /\ reuse => path # <<>>
       /\ Begin(in, IF reuse THEN path ELSE <<>>, RouterInit(world, in.points),
                Vertex(in.points[1].m_point, in.points[1].m_point, 0, 0, FALSE))
  /\ UNCHANGED << world, m_outgoingCache, m_ingoingCache >>

\* One more iteration of the loop of FindPath.
Iterate == pops < MaxPops /\ pops' = pops + 1

\* The loop condition fails: FindPath returns false.
QueueEmpty ==
  /\ pc = "search"
  /\ queue = {}
  /\ result' = FALSE
  /\ pc' = "done"
  /\ popped' = NoPop
  /\ history' = Record(history, CallKey, [result |-> FALSE, path |-> path])
  /\ UNCHANGED << world, fakes, routerVars, cacheVars, queue, scores, links, found,
                  path, paid, pops, expanded, calls, prior >>

PopStaleOn(p) ==
  /\ p[1] # scores[p[2]]
  /\ queue' = queue \ {p}
  /\ popped' = [kind |-> "stale", su |-> p[1], u |-> p[2]]

\* An iteration that pops a stale entry.
PopStale ==
  /\ pc = "search"
  /\ queue # {}
  /\ Iterate
  /\ PopStaleOn(Top(queue))
  /\ UNCHANGED << world, fakes, routerVars, cacheVars, scores, links, found,
                  path, result, pc, paid, expanded, callVars >>

\* LinkChain without the reversal: the edges in the order the links are
\* followed, from u back to the source.
RECURSIVE LinkChainUnreversed(_, _, _)
LinkChainUnreversed(cur, s, lk) ==
  IF cur = s THEN <<>> ELSE <<lk[cur].e>> \o LinkChainUnreversed(lk[cur].u, s, lk)

\* The search edges from the source to u, read off the back-links.
RECURSIVE LinkChain(_, _, _)
LinkChain(cur, s, lk) ==
  IF cur = s THEN <<>> ELSE Append(LinkChain(lk[cur].u, s, lk), lk[cur].e)

Return(out) ==
  /\ pc' = "done"
  /\ path' = out
  /\ result' = (out # <<>>)
  /\ history' = Record(history, CallKey, [result |-> (out # <<>>), path |-> out])

\* ReconstructPath on the trimmed search edges.
Reconstruct(trimmed, real) ==
  /\ m_ingoingCache' = IngoingCacheAfter(trimmed, ForStagePrefix(trimmed, 0))
  /\ m_outgoingCache' = OutgoingCacheAfter(trimmed, BackIndex(trimmed))
  /\ IF real = <<>> /\ ~ApproximationChecks(trimmed)
     THEN /\ pc' = "abort"
          /\ path' = <<>>
          /\ UNCHANGED << result, history >>
     ELSE Return(PathOf(trimmed))

PopFinalOn(p, es) ==
  /\ p[1] = scores[p[2]]
  /\ IsFinalVertex(p[2])
  /\ queue' = queue \ {p}
  /\ popped' = [kind |-> "final", su |-> p[1], u |-> p[2]]
  /\ found' = es

\* An iteration that pops a final vertex: the back-links are followed and
\* ReconstructPath decides the result.
PopFinal ==
  /\ pc = "search"
  /\ queue # {}
  /\ Iterate
  /\ PopFinalOn(Top(queue), LinkChain(Top(queue)[2], SourceVertex, links))
  /\ Reconstruct(TrimOffsets(found', m_positiveOffsetM, m_negativeOffsetM),
                 RealPart(TrimOffsets(found', m_positiveOffsetM, m_negativeOffsetM)))
  /\ UNCHANGED << world, fakes, routerVars, scores, links, paid, expanded, calls, prior >>

PopPrunedOn(p) ==
  /\ p[1] = scores[p[2]]
  /\ ~IsFinalVertex(p[2])
  /\ TooFar(p[2], RealDistance(p[1], p[2]))
  /\ queue' = queue \ {p}
  /\ popped' = [kind |-> "pruned", su |-> p[1], u |-> p[2]]

\* An iteration that drops a vertex lying too far into its stage.
PopPruned ==
  /\ pc = "search"
  /\ queue # {}
  /\ Iterate
  /\ PopPrunedOn(Top(queue))
  /\ UNCHANGED << world, fakes, routerVars, cacheVars, scores, links, found,
                  path, result, pc, paid, expanded, callVars >>

Expanded(acc) ==
  /\ scores' = acc.scores
  /\ links' = acc.links
  /\ queue' = acc.queue
  /\ paid' = acc.paid
  /\ pc' = IF acc.failed THEN "abort" ELSE "search"

\* PopExpandOn without the test for a final vertex.
PopExpandOnAny(p, su, u, piU, ud) ==
  /\ su = scores[u]
  /\ ~TooFar(u, ud)
  /\ popped' = [kind |-> "expanded", su |-> su, u |-> u]
  /\ expanded' = expanded \cup {u}
  /\ Expanded(Expand([scores |-> scores, links |-> links, queue |-> queue \ {p},
                      paid |-> paid, failed |-> FALSE], u, su, piU, ud))
  /\ m_outgoingCache' =
       CacheAfter(u.m_junction, GetRegularOutgoingEdges(world, u.m_junction),
                  m_outgoingCache)

\* PopExpandOn without the test for a stale entry.
PopExpandOnStale(p, su, u, piU, ud) ==
  /\ ~IsFinalVertex(u)
  /\ ~TooFar(u, ud)
  /\ popped' = [kind |-> "expanded", su |-> su, u |-> u]
  /\ expanded' = expanded \cup {u}
  /\ Expanded(Expand([scores |-> scores, links |-> links, queue |-> queue \ {p},
                      paid |-> paid, failed |-> FALSE], u, su, piU, ud))
  /\ m_outgoingCache' =
       CacheAfter(u.m_junction, GetRegularOutgoingEdges(world, u.m_junction),
                  m_outgoingCache)

PopExpandOn(p, su, u, piU, ud) ==
  /\ su = scores[u]
  /\ ~IsFinalVertex(u)
  /\ ~TooFar(u, ud)
  /\ popped' = [kind |-> "expanded", su |-> su, u |-> u]
  /\ expanded' = expanded \cup {u}
  /\ Expanded(Expand([scores |-> scores, links |-> links, queue |-> queue \ {p},
                      paid |-> paid, failed |-> FALSE], u, su, piU, ud))
  /\ m_outgoingCache' =
       CacheAfter(u.m_junction, GetRegularOutgoingEdges(world, u.m_junction),
                  m_outgoingCache)

\* An iteration that expands a vertex: the bearing check, the stage advance
\* and the loop over the outgoing edges.
PopExpand ==
  /\ pc = "search"
  /\ queue # {}
  /\ Iterate
  /\ PopExpandOn(Top(queue), Top(queue)[1], Top(queue)[2], GetPotential(Top(queue)[2]),
                 RealDistance(Top(queue)[1], Top(queue)[2]))
  /\ UNCHANGED << world, fakes, routerVars, m_ingoingCache, found, path, result,
                  callVars >>

\* One call on a new router.
GoOnce == Go(Inputs(world), 1)

Next == GoOnce \/ QueueEmpty \/ PopStale \/ PopFinal \/ PopPruned \/ PopExpand

Spec == Init /\ [][Next]_vars

\* Several calls on one router.
GoAgain == Go(InputsAgain(world), MaxCalls)

NextRepeat == GoAgain \/ QueueEmpty \/ PopStale \/ PopFinal \/ PopPruned \/ PopExpand

SpecRepeat == Init /\ [][NextRepeat]_vars

\* The loop of FindPath goes on: its exit when the queue is empty, one more
\* iteration otherwise.  A step of Next out of a state with pc = "search" is
\* a step of Running, and one is possible in each such state while fewer
\* than MaxPops iterations have run.
Running ==
  /\ pc = "search"
  /\ IF queue = {} THEN pc' = "done" /\ pops' = pops
     ELSE pc' \in {"search", "done", "abort"} /\ Iterate

\* The thread that called Go keeps running the loop of FindPath.
SpecFair == Init /\ [][Next]_vars /\ WF_<<pc, pops>>(Running)

\* ------------------------------------------------------------- properties
\* The vector `edges` of ReconstructPath after the special edges are erased
\* and the offsets consumed, for the search edges of the current call.
Trimmed == TrimOffsets(found, m_positiveOffsetM, m_negativeOffsetM)

\* Whether ReconstructPath inserted frontEdge, backEdge.
FrontAttached == FrontAttachedTo(RealPart(Trimmed), FrontMatch(Trimmed))
BackAttached == BackAttachedTo(RealPart(Trimmed), BackMatch(Trimmed))

Returned == pc = "done" /\ result

PathLength(p) == SumSeq(MapSeq(p, GetWeight))

\* The total length of the graph edges among the search edges es.
SearchLength(es) ==
  SumSeq(MapSeq(SelectSeq(es, LAMBDA e : ~e.m_isSpecial), LAMBDA e : GetWeight(e.m_raw)))

\* The sum over the stages of dist_to_next + max(1000, dist_to_next).
LengthLimit ==
  SumSeq([k \in 1..Len(m_points) - 1 |->
            m_points[k].m_distanceToNextPointM
              + Max(kDistanceAccuracyM, m_points[k].m_distanceToNextPointM)])

\* C1: whenever Go returns true, every edge of the output path is non-fake,
\* the reattached front and back edges and the single-edge approximation
\* included.
C1_OutputEdgesNonFake ==
  Returned => \A i \in 1..Len(path) : ~path[i].isFake

\* Go returned true with a path that is the single-edge approximation of
\* search edges that are all fake.
C1_ApproximationReturned ==
  Returned /\ Trimmed # <<>> /\ RealPart(Trimmed) = <<>> /\ Len(path) = 1

\* C2: on every exit of Go the result equals "the output path is non-empty";
\* the path is empty whenever Go returns false, whatever the vector held
\* before the call.
C2_ResultMirrorsPath ==
  pc = "done" => (result <=> path # <<>>)

\* Some intermediate way-point (index 1..n-2) has no edge nearby.
EmptyIntermediatePivot ==
  \E i \in 2..Len(m_points) - 1 :
    FindClosestEdges(world, m_points[i].m_point, kMaxRoadCandidates) = <<>>

\* C3: if the nearest-edge query returns no edge for an intermediate
\* way-point, Go returns false without running the search (nothing is pushed
\* or popped) and the graph holds no fake edge.
C3_EmptyPivotFailsInit ==
  EmptyIntermediatePivot =>
    /\ pc = "done"
    /\ ~result
    /\ fakes = {}
    /\ queue = {} /\ scores = EmptyMap /\ links = EmptyMap /\ popped = NoPop

\* Go returned for a reference of three way-points whose middle one has no
\* edge nearby while the source and the target have, on a router whose
\* earlier call had succeeded.
C3_InitFailed ==
  /\ pc = "done"
  /\ EmptyIntermediatePivot
  /\ calls > 1 /\ prior # <<>>
  /\ FindClosestEdges(world, m_points[1].m_point, kMaxRoadCandidates) # <<>>
  /\ FindClosestEdges(world, m_points[Len(m_points)].m_point, kMaxRoadCandidates) # <<>>

\* C4: a Go call returns the result and the path that the first call with
\* the same way-points and offsets returned on this router.
C4_SameInputsSameOutput ==
  (pc = "done" /\ CallKey \in DOMAIN history) =>
    history[CallKey] = [result |-> result, path |-> path]

\* What does hold of repeated calls: the result is that of the first call
\* with the same way-points and offsets, and so is the path when the result
\* is true; a call that returns false leaves the vector empty or as it was
\* passed.
SameInputsSameResult ==
  (pc = "done" /\ CallKey \in DOMAIN history) =>
    /\ history[CallKey].result = result
    /\ result => history[CallKey].path = path
    /\ ~result => path \in {<<>>, prior}

\* C5: Go never returns a path whose real length exceeds the sum over the
\* stages of dist_to_next + max(1000, dist_to_next).
C5_PathLengthBounded ==
  Returned => PathLength(path) <= LengthLimit

\* C5, as the code has it: the graph edges the search followed to the final
\* vertex, before offsets are consumed and edges reattached, are together no
\* longer than the sum over the stages of dist_to_next + max(1000,
\* dist_to_next).
C5_SearchLengthBounded ==
  pc = "done" => SearchLength(found) <= LengthLimit

\* Go returned true after a search whose edges are together at least 1000 m
\* long.
C5_LongSearchReturned ==
  Returned /\ SearchLength(found) >= kDistanceAccuracyM

\* C6: consecutive edges of a returned path share a junction unless one of
\* the two is the reattached front or back edge, and a reattached edge is
\* never equal to the edge next to it.
C6_ConsecutiveEdgesJoin ==
  Returned =>
    /\ \A i \in 1..Len(path) - 1 :
         \/ path[i].end = path[i + 1].start
         \/ i = 1 /\ FrontAttached
         \/ i + 1 = Len(path) /\ BackAttached
    /\ FrontAttached => path[1] # path[2]
    /\ BackAttached => path[Len(path)] # path[Len(path) - 1]

\* The way-point whose lfrcnp restricts the search edge e.
StagePoint(e) == m_points[e.m_u.m_stage + 1]

Allowed(edge, point) == GetFrc(world, edge) <= point.m_lfrcnp + kTolerance

\* C7: every real edge of a returned path has functional road class at most
\* lfrcnp + 3 of the way-point of its stage: the stage of the search for a
\* search edge, stage 0 for the reattached front edge, the last stage for the
\* reattached back edge, the stage of an approximated fake edge for the
\* single-edge approximation; and no restriction rejects a fake edge.
C7_RoadClassRespected ==
  /\ Returned =>
       IF RealPart(Trimmed) # <<>>
       THEN /\ \A i \in 1..Len(Trimmed) :
                 ~Trimmed[i].m_raw.isFake => Allowed(Trimmed[i].m_raw, StagePoint(Trimmed[i]))
            /\ FrontAttached => Allowed(path[1], m_points[1])
            /\ BackAttached => Allowed(path[Len(path)], m_points[Len(m_points) - 1])
       ELSE \E i \in 1..Len(Trimmed) : Allowed(path[1], StagePoint(Trimmed[i]))
  /\ \A f \in fakes : \A l \in Lfrcnps : PassesRestriction(f, l)

\* Go returned true with a real search edge beside which the graph has an
\* edge between the same junctions of a class the stage's way-point does not
\* allow.
C7_RestrictedEdgeAvoided ==
  /\ Returned
  /\ \E i \in 1..Len(Trimmed), k \in 1..Len(world.edges) :
       /\ ~Trimmed[i].m_raw.isFake
       /\ world.edges[k].start = Trimmed[i].m_raw.start
       /\ world.edges[k].end = Trimmed[i].m_raw.end
       /\ ~Allowed(world.edges[k], StagePoint(Trimmed[i]))

\* The positive offsets the search edges of a call are trimmed with.
OffsetProbes == {0, 5, 15, 20, 30, 45, 60, 100}

\* C8: for the search edges of a call, the path produced for a larger
\* positive offset (the offsets totalling less than the length of the search
\* edges) is a suffix of the path produced for the smaller one.
C8_OutputSuffix ==
  (pc = "done" /\ found # <<>>) =>
    \A p \in OffsetProbes :
      (p >= m_positiveOffsetM /\ p + m_negativeOffsetM < SearchLength(found)) =>
        IsSuffix(ReconstructPath(found, p, m_negativeOffsetM),
                 ReconstructPath(found, m_positiveOffsetM, m_negativeOffsetM))

\* C8, as the code has it: for a larger positive offset the search edges
\* left after the offsets are consumed, and so the real edges taken from
\* them into the path, are a suffix of those left for the smaller offset.
C8_TrimmedSuffix ==
  (pc = "done" /\ found # <<>>) =>
    \A p \in OffsetProbes :
      p >= m_positiveOffsetM =>
        /\ IsSuffix(TrimOffsets(found, p, m_negativeOffsetM), Trimmed)
        /\ IsSuffix(RealPart(TrimOffsets(found, p, m_negativeOffsetM)), RealPart(Trimmed))

\* Go returned, and a larger positive offset leaves fewer search edges, a
\* real one among them.
C8_LargerOffsetConsumesMore ==
  /\ Returned
  /\ \E p \in OffsetProbes :
       /\ p > m_positiveOffsetM
       /\ Len(TrimOffsets(found, p, m_negativeOffsetM)) < Len(Trimmed)
       /\ RealPart(TrimOffsets(found, p, m_negativeOffsetM)) # <<>>

\* C9: along the back-link path to any vertex the bearing penalty of each
\* stage's way-point, and the reverse-bearing penalty of the last way-point,
\* is added at most once.
C9_BearingPaidOnce ==
  \A v \in DOMAIN paid : \A k \in 1..Len(m_points) : paid[v][k] <= 1

\* A final vertex of a reference of more than two way-points was popped on
\* whose back-link path the bearing penalty of every stage's way-point and the
\* reverse-bearing penalty of the last way-point were added.
C9_EveryPenaltyPaid ==
  /\ popped.kind = "final"
  /\ Len(m_points) > 2
  /\ \A k \in 1..Len(m_points) : paid[popped.u][k] = 1

\* C10: for every vertex u popped from the priority queue the recovered real
\* distance score[u].distance + pi(s) - pi(u) is at least 0.
C10_RealDistanceNonNegative ==
  popped.kind # "none" => RealDistance(popped.su, popped.u) >= 0

\* A vertex was expanded that lies farther from the pivots of its stage than
\* the source does.
C10_PoppedAwayFromPivot ==
  /\ popped.kind = "expanded"
  /\ popped.u.m_stage = 0
  /\ GetPotential(popped.u) > GetPotential(SourceVertex)

\* C11: a search that has started ends after finitely many iterations, by
\* popping a final vertex or by finding the priority queue empty, also when
\* the graph has cycles of real or fake edges and fake edges of length zero.
C11_SearchTerminates ==
  (pc = "search") ~>
    (pc = "done" /\ (popped.kind = "final" \/ (popped = NoPop /\ queue = {})))

\* A search ended on a graph with a fake edge of length zero, after the
\* back-links had followed a cycle: an edge out of a junction and an edge
\* back to it.
C11_CycleFollowed ==
  /\ pc = "done"
  /\ \E f \in fakes : f.start = f.end
  /\ \E v \in DOMAIN links :
       /\ ~links[v].e.m_isSpecial
       /\ links[v].u \in DOMAIN links
       /\ ~links[links[v].u].e.m_isSpecial
       /\ links[v].u.m_junction # v.m_junction
       /\ links[links[v].u].u.m_junction = v.m_junction

\* ReconstructPath ran on search edges none of which is real.
OnlyFakeFound == pc = "done" /\ popped.kind = "final" /\ RealPart(Trimmed) = <<>>

\* The real edges near the ends of the fake search edges, their coverage
\* fraction and their weight times that fraction.
Candidates ==
  {ApproximationCandidates(Trimmed)[i] : i \in 1..Len(ApproximationCandidates(Trimmed))}

FractionOf(c) == GetCoverage(c.start, c.end, Trimmed)

Weighted(c) == (GetWeight(c) * FractionOf(c).num) \div FractionOf(c).den

Qualified == {c \in Candidates : RatioAtLeast(FractionOf(c), 8, 10)}

ExpectedLength == SumSeq(MapSeq(Trimmed, LAMBDA e : GetWeight(e.m_raw)))

\* The candidates the approximation may return.
Acceptable ==
  {c \in Qualified : /\ \A d \in Qualified : Weighted(d) <= Weighted(c)
                     /\ 2 * Weighted(c) >= ExpectedLength}

\* C12: when the search edges left after trimming hold no real edge, the
\* path is one real edge that has the largest weight times coverage fraction
\* among the candidates of fraction at least 0.8, provided the fake edges
\* have positive total length and that value is at least half of it; the
\* path is empty in every other case.
C12_BestCoveringEdgeOrNothing ==
  OnlyFakeFound =>
    IF ExpectedLength > 0 /\ Acceptable # {}
    THEN \E c \in Acceptable : path = <<c>>
    ELSE path = <<>>

\* The approximation chose between candidates of fraction at least 0.8 with
\* different values.
C12_ChoseTheLarger ==
  /\ OnlyFakeFound
  /\ path # <<>>
  /\ \E d \in Qualified : Weighted(d) < Weighted(path[1])

\* The transitions FindPath generates out of a vertex u reached with score
\* su over the back-links lk, as the entries it would push on an empty queue.
TransitionsFrom(u, su, lk) ==
  Expand([scores |-> EmptyMap, links |-> lk, queue |-> {},
          paid |-> (u :> [k \in 1..Len(m_points) |-> 0]), failed |-> FALSE],
         u, su, GetPotential(u), RealDistance(su, u))

\* Some sequence of transitions that visits no vertex twice continues the
\* sequence lk, which has reached u with score su, to a final vertex with a
\* total score below bound; a vertex beyond the pruning distance of its
\* stage is not continued.
RECURSIVE ReachesFinalBelow(_, _, _, _)
ReachesFinalBelow(u, su, lk, bound) ==
  IF GetScore(su) >= bound THEN FALSE
  ELSE IF IsFinalVertex(u) THEN TRUE
  ELSE IF TooFar(u, RealDistance(su, u)) THEN FALSE
  ELSE LET next == TransitionsFrom(u, su, lk)
       IN \E q \in next.queue :
            /\ q[2] \notin DOMAIN lk
            /\ q[2] # SourceVertex
            /\ ReachesFinalBelow(q[2], q[1],
                                 (q[2] :> [u |-> u, e |-> next.links[q[2]].e]) @@ lk, bound)

\* C13: when a final vertex is popped, no sequence of search transitions
\* from the source to a final vertex that respects the road-class
\* restriction and the pruning has a total score below that of the popped
\* vertex.
C13_FoundPathIsBest ==
  popped.kind = "final" =>
    ~ReachesFinalBelow(SourceVertex, ZeroScore, EmptyMap, GetScore(popped.su))

\* The back-link on which the vertex v, or a vertex before it in its stage,
\* got bearing_checked = true.
RECURSIVE FlagSetBy(_)
FlagSetBy(v) == IF links[v].u.m_bearingChecked THEN FlagSetBy(links[v].u) ELSE links[v]

\* The check on the back-link t compared no direction: it was made at the
\* junction, or at the point of the edge, where the stage started.
NoDirection(t) ==
  IF t.e.m_isSpecial THEN t.u.m_junction = t.u.m_stageStart
  ELSE t.u.m_stageStart =
         PointAtSegment(t.e.m_raw.start, t.e.m_raw.end,
                        RealDistance(scores[t.u], t.u) + GetWeight(t.e.m_raw)
                          - t.u.m_stageStartDistance - kBearingDist)

\* C14: every vertex with bearing_checked = true has had the bearing penalty
\* of its stage added exactly once on the back-link path leading to it.
C14_BearingPaidExactlyOnce ==
  \A v \in DOMAIN paid : v.m_bearingChecked => paid[v][v.m_stage + 1] = 1

\* C14, as the code has it: on the back-link path to a vertex with
\* bearing_checked = true the bearing penalty of its stage was added once,
\* except that it was not added at all when the check was made at the point
\* where the stage started, where there is no direction to compare.
C14_BearingPaidOnceUnlessAtStart ==
  \A v \in DOMAIN paid :
    v.m_bearingChecked =>
      paid[v][v.m_stage + 1] = (IF NoDirection(FlagSetBy(v)) THEN 0 ELSE 1)

\* A vertex was expanded whose flag was set by a graph edge, the penalty
\* added, while another vertex got the flag at the start of its stage.
C14_CheckedOnEdge ==
  /\ popped.kind = "expanded"
  /\ popped.u.m_bearingChecked
  /\ ~FlagSetBy(popped.u).e.m_isSpecial
  /\ paid[popped.u][popped.u.m_stage + 1] = 1
  /\ \E v \in DOMAIN paid : v.m_bearingChecked /\ NoDirection(FlagSetBy(v))

\* The total length of the graph edges on the back-link path to u.
BackLinkLength(u) == SearchLength(LinkChain(u, SourceVertex, links))

\* The iteration computed ud for the vertex it popped.
PoppedWithDistance == popped.kind \in {"pruned", "expanded"}

\* C15: for every vertex u popped non-stale, ud = score(u).distance + pi(s)
\* - pi(u) is the sum of the lengths of the graph edges on the back-link path
\* from the source to u.
C15_RecoveredDistanceIsPathLength ==
  PoppedWithDistance => RealDistance(popped.su, popped.u) = BackLinkLength(popped.u)

\* A vertex of a later stage was expanded away from the pivots of its stage
\* and beyond the start of its stage.
C15_ExpandedInLaterStage ==
  /\ popped.kind = "expanded"
  /\ popped.u.m_stage >= 1
  /\ GetPotential(popped.u) > 0
  /\ BackLinkLength(popped.u) > popped.u.m_stageStartDistance
  /\ popped.u.m_stageStartDistance > 0

\* C16: every vertex with a score or in the queue has stage at most
\* num_points - 1; no back-link leaves a vertex of stage num_points - 1 and
\* popping one ends the search; the stage of a vertex whose way-point and
\* pivots are read is below num_points - 1 and below the number of pivot
\* lists.
C16_StageInRange ==
  /\ \A v \in DOMAIN scores : v.m_stage <= Len(m_points) - 1
  /\ \A q \in queue : q[2].m_stage <= Len(m_points) - 1
  /\ \A v \in DOMAIN links : links[v].u.m_stage < Len(m_points) - 1
  /\ popped.kind = "final" => pc # "search"
  /\ popped.kind \in {"pruned", "expanded"} =>
       /\ popped.u.m_stage < Len(m_points) - 1
       /\ popped.u.m_stage < Len(m_pivots)

\* A vertex of the last stage of a reference of three way-points was popped
\* and ended the search while the queue still held entries.
C16_FinalEndsSearch ==
  /\ popped.kind = "final"
  /\ pc = "done"
  /\ Len(m_points) = 3
  /\ popped.u.m_stage = 2
  /\ queue # {}

\* C17: for every vertex u popped non-stale, u.stage_start_distance is at
\* most the recovered real distance to u.
C17_StageStartNotAhead ==
  popped.kind \in {"final", "pruned", "expanded"} =>
    popped.u.m_stageStartDistance <= RealDistance(popped.su, popped.u)

\* A vertex of a later stage was expanded at the very start of its stage,
\* which lies beyond the source.
C17_PoppedAtStageStart ==
  /\ popped.kind = "expanded"
  /\ popped.u.m_stage >= 1
  /\ popped.u.m_stageStartDistance > 0
  /\ RealDistance(popped.su, popped.u) = popped.u.m_stageStartDistance

\* The back-links over a graph edge that made its end vertex due for the
\* bearing check.
DueLinks ==
  {v \in DOMAIN links : /\ ~links[v].e.m_isSpecial
                         /\ ~links[v].u.m_bearingChecked
                         /\ v.m_bearingChecked}

\* C18: whenever a graph edge u -> v makes v due for the bearing check, u
\* was not due (ud < u.stage_start_distance + 25): the CHECK in the edge loop
\* never fails.
C18_DueOnlyAfterNotDue ==
  /\ ~(pc = "abort" /\ popped.kind = "expanded")
  /\ \A v \in DueLinks :
       RealDistance(scores[links[v].u], links[v].u)
         < links[v].u.m_stageStartDistance + kBearingDist

\* A graph edge made its end vertex due, leaving a vertex that lay beyond
\* the start of the stage.
C18_EdgeMadeDue ==
  /\ pc = "search"
  /\ \E v \in DueLinks :
       RealDistance(scores[links[v].u], links[v].u) > v.m_stageStartDistance

\* The back-link to v is a stage advance as C19 describes it.
IsStageAdvance(v, t) ==
  /\ t.e.m_isSpecial
  /\ v.m_stage = t.u.m_stage + 1
  /\ t.u.m_bearingChecked
  /\ GetPotential(t.u) = 0
  /\ ~v.m_bearingChecked
  /\ v.m_junction = t.u.m_junction
  /\ v.m_stageStart = v.m_junction
  /\ v.m_stageStartDistance = RealDistance(scores[t.u], t.u)

\* The back-link to v stays in the stage: the start of the stage is kept
\* and bearing_checked is not taken back.
StaysInStage(v, t) ==
  /\ v.m_stage = t.u.m_stage
  /\ v.m_stageStart = t.u.m_stageStart
  /\ v.m_stageStartDistance = t.u.m_stageStartDistance
  /\ t.u.m_bearingChecked => v.m_bearingChecked

\* C19: along any back-link path the stage changes only on a stage-advance
\* special edge, which raises it by 1, leaves a vertex with bearing_checked =
\* true and potential 0, and yields a vertex with bearing_checked = false,
\* stage_start = its junction and stage_start_distance = the real distance at
\* the advance; the path to a popped final vertex starts in stage 0 and ends
\* in stage n - 1.
C19_StagesInOrder ==
  /\ \A v \in DOMAIN links : IsStageAdvance(v, links[v]) \/ StaysInStage(v, links[v])
  /\ \A v \in DOMAIN links : ~links[v].e.m_isSpecial => StaysInStage(v, links[v])
  /\ (popped.kind = "final" /\ found # <<>>) =>
       /\ found[1].m_u.m_stage = 0
       /\ found[Len(found)].m_v.m_stage = Len(m_points) - 1
       /\ \A i \in 1..Len(found) - 1 : found[i].m_v = found[i + 1].m_u

\* The path to a popped final vertex of a reference of three way-points has a
\* bearing check and a stage advance in each of the stages 0 and 1, the
\* second advance away from the source.
C19_TwoAdvances ==
  /\ popped.kind = "final"
  /\ Len(m_points) = 3
  /\ \A k \in {0, 1} :
       \E i, j \in 1..Len(found) :
         /\ i < j
         /\ found[i].m_u.m_stage = k /\ found[i].m_v.m_stage = k
         /\ ~found[i].m_u.m_bearingChecked /\ found[i].m_v.m_bearingChecked
         /\ found[j].m_u.m_stage = k /\ found[j].m_v.m_stage = k + 1
  /\ popped.u.m_stageStartDistance > 0

\* The vertices whose score an iteration of the loop set or replaced.
Rescored == {v \in DOMAIN scores' : v \notin DOMAIN scores \/ scores'[v] # scores[v]}

\* C20: the pushVertex calls of an iteration change scores, links and the
\* queue only for vertices other than the expanded one that had no score or
\* a total score greater than the new one; for each of them the score and
\* the link are written together and the entry is put in the queue, so a
\* recorded total score only ever decreases; for every other vertex score
\* and link stay as they were, and nothing else enters the queue.
C20_PushFrame ==
  [][pc = "search" =>
       /\ DOMAIN scores \subseteq DOMAIN scores'
       /\ \A v \in Rescored :
            /\ v \in DOMAIN scores => GetScore(scores'[v]) < GetScore(scores[v])
            /\ v \in DOMAIN links'
            /\ links'[v].u = popped'.u
            /\ links'[v].u # v
            /\ <<scores'[v], v>> \in queue'
       /\ \A v \in DOMAIN scores \ Rescored :
            /\ v \in DOMAIN links <=> v \in DOMAIN links'
            /\ v \in DOMAIN links => links'[v] = links[v]
       /\ DOMAIN links' \subseteq DOMAIN scores'
       /\ \A q \in queue' \ queue : q[2] \in Rescored]_vars

\* The score of a vertex was replaced by a lower one: the queue holds the
\* entry of the recorded score and a stale entry of a greater score.
C20_ScoreOverwritten ==
  /\ pc = "search"
  /\ \E q, r \in queue :
       /\ q[2] = r[2]
       /\ scores[q[2]] = q[1]
       /\ GetScore(r[1]) > GetScore(q[1])

\* C21: an entry is expanded only if its score is the recorded score of its
\* vertex; no vertex is expanded twice in a search; the entries are popped,
\* stale ones included, in non-decreasing order of total score; the recorded
\* score and the back-link of an expanded vertex never change.
C21_ExpandedOnce ==
  [][pc = "search" =>
       /\ popped'.kind = "expanded" =>
            /\ popped'.su = scores[popped'.u]
            /\ popped'.u \notin expanded
       /\ (popped # NoPop /\ popped' # NoPop) =>
            GetScore(popped.su) <= GetScore(popped'.su)
       /\ \A v \in expanded :
            /\ scores'[v] = scores[v]
            /\ v \in DOMAIN links' <=> v \in DOMAIN links
            /\ v \in DOMAIN links => links'[v] = links[v]]_vars

\* A stale entry of a vertex was popped after the vertex had been expanded
\* with a lower score.
C21_StaleAfterExpansion ==
  /\ popped.kind = "stale"
  /\ popped.u \in expanded
  /\ GetScore(popped.su) > GetScore(scores[popped.u])

\* Following the back-links from cur reaches the source in at most n steps.
RECURSIVE ReachesSource(_, _)
ReachesSource(cur, n) ==
  IF cur = SourceVertex THEN TRUE
  ELSE IF n = 0 \/ cur \notin DOMAIN links THEN FALSE
  ELSE ReachesSource(links[cur].u, n - 1)

\* C22: the source never gets a back-link and the back-links are acyclic:
\* from every linked vertex they lead to the source in finitely many steps,
\* each link holding the edge from the linked-to vertex to the vertex; when
\* a final vertex is popped, the reversed edge list starts at the source,
\* each edge ends where the next one starts, and the last ends at the final
\* vertex.
C22_LinksLeadToSource ==
  pc # "idle" =>
    /\ SourceVertex \notin DOMAIN links
    /\ \A v \in DOMAIN links :
         /\ links[v].e.m_u = links[v].u
         /\ links[v].e.m_v = v
         /\ links[v].u \in expanded
         /\ ReachesSource(v, Cardinality(DOMAIN links))
    /\ popped.kind = "final" =>
         /\ found # <<>>
         /\ found[1].m_u = SourceVertex
         /\ \A i \in 1..Len(found) - 1 : found[i].m_v = found[i + 1].m_u
         /\ found[Len(found)].m_v = popped.u
         /\ \A i, j \in 1..Len(found) : i # j => found[i].m_v # found[j].m_v

\* A final vertex was popped behind a chain of at least two graph edges and
\* two stage advances, while a vertex off the chain holds a link as well.
C22_LongChain ==
  /\ popped.kind = "final"
  /\ Len(m_points) = 3
  /\ Cardinality({i \in 1..Len(found) : ~found[i].m_isSpecial}) >= 2
  /\ \E v \in DOMAIN links : \A i \in 1..Len(found) : found[i].m_v # v

\* The list cached for a junction is the list of regular edges of the graph
\* as it is, whatever the road class, and the enumeration at the junction
\* yields it followed by the fake edges the graph holds now.
ServesAt(cached, enumerated, regular, fake) ==
  /\ cached = regular
  /\ enumerated = regular \o fake
  /\ \A k \in 1..Len(enumerated) : enumerated[k].isFake <=> enumerated[k] \in fakes

CacheServes ==
  /\ \A j \in DOMAIN m_outgoingCache :
       ServesAt(m_outgoingCache[j], GetOutgoingEdges(j),
                GetRegularOutgoingEdges(world, j), GetFakeOutgoingEdges(fakes, j))
  /\ \A j \in DOMAIN m_ingoingCache :
       ServesAt(m_ingoingCache[j], GetIngoingEdges(j),
                GetRegularIngoingEdges(world, j), GetFakeIngoingEdges(fakes, j))

\* An entry of the cache stays as it was written.
CacheKept(cache, after) ==
  \A j \in DOMAIN cache : j \in DOMAIN after /\ after[j] = cache[j]

\* C23: over any sequence of Go calls on one Router an enumeration at a
\* junction yields the regular edges the graph reported when the junction
\* was first enumerated in that direction, a cache entry never being written
\* again, followed by the fake edges the graph holds at the time of the
\* enumeration; no fake edge is served from the cache and the cached list
\* holds the regular edges of every road class.
C23_CacheServesRegularEdges ==
  /\ []CacheServes
  /\ [][/\ CacheKept(m_outgoingCache, m_outgoingCache')
        /\ CacheKept(m_ingoingCache, m_ingoingCache')]_vars

\* In the second call on a router a vertex is about to be expanded at a
\* junction that an earlier call cached and that had, in the earlier call,
\* an outgoing fake edge the graph no longer holds.
C23_CachedBeforeFakeReset ==
  /\ pc = "search"
  /\ calls = 2
  /\ \E j \in DOMAIN m_outgoingCache :
       /\ \A v \in expanded : v.m_junction # j
       /\ \E q \in queue : q[2].m_junction = j /\ q[1] = scores[q[2]]
       /\ \E key \in DOMAIN history :
            \E e \in InitFakes(world, key.points[1].m_point,
                               key.points[Len(key.points)].m_point) :
              e.start = j /\ e \notin fakes

\* The offsets and the short ranges of point pairs, some of length zero,
\* that FindPrefixLengthToConsume is tried on besides the edges of a call.
PrefixProbes == OffsetProbes \cup {-5, 10}
PairProbes ==
  {<<>>} \cup { <<a>> : a \in {0, 10} \X {0, 10} }
         \cup { <<a, b>> : a \in {0, 10} \X {0, 10}, b \in {0, 10} \X {0, 10} }

\* The offset left when the k-th pair of the range is reached, and the test
\* the k-th pair has to pass to be consumed.
RemainingAt(pairs, lengthM, k) ==
  lengthM - SumSeq([i \in 1..k - 1 |-> DistanceOnEarth(pairs[i][1], pairs[i][2])])

Consumable(pairs, lengthM, k) ==
  /\ RemainingAt(pairs, lengthM, k) > 0
  /\ DistanceOnEarth(pairs[k][1], pairs[k][2]) <= 2 * RemainingAt(pairs, lengthM, k)

\* n is the number of leading pairs that pass the test, the next one, if
\* any, failing it.
IsPrefixLength(pairs, lengthM, n) ==
  /\ n \in 0..Len(pairs)
  /\ \A k \in 1..n : Consumable(pairs, lengthM, k)
  /\ n < Len(pairs) => ~Consumable(pairs, lengthM, n + 1)
  /\ lengthM <= 0 => n = 0

\* The graph edges among the search edges of the call, and what is left of
\* them after the positive offset p was consumed.
GraphEdgesFound == SelectSeq(found, LAMBDA e : ~e.m_isSpecial)

AfterPositive(p) ==
  SubSeq(GraphEdgesFound,
         FindPrefixLengthToConsume(MapSeq(GraphEdgesFound, ToPair), p) + 1,
         Len(GraphEdgesFound))

ConsumedFront(p) == FindPrefixLengthToConsume(MapSeq(GraphEdgesFound, ToPair), p)

ConsumedBack(p, q) ==
  FindPrefixLengthToConsume(MapSeq(ReverseSeq(AfterPositive(p)), ToPairRev), q)

\* C24: FindPrefixLengthToConsume returns the number n of leading edges for
\* which, in order, the remaining offset was > 0 and the edge length at most
\* twice the remaining offset, edge n + 1 (if any) failing that test; n = 0
\* for an offset <= 0 and n never exceeds the number of edges; the negative
\* offset is consumed the same way from the back of what is left after the
\* positive offset was consumed.
C24_PrefixLengthConsumed ==
  /\ \A pairs \in PairProbes, l \in PrefixProbes :
       IsPrefixLength(pairs, l, FindPrefixLengthToConsume(pairs, l))
  /\ (pc = "done" /\ found # <<>>) =>
       \A p, q \in PrefixProbes :
         /\ IsPrefixLength(MapSeq(GraphEdgesFound, ToPair), p, ConsumedFront(p))
         /\ IsPrefixLength(MapSeq(ReverseSeq(AfterPositive(p)), ToPairRev), q,
                           ConsumedBack(p, q))
         /\ TrimOffsets(found, p, q)
              = SubSeq(AfterPositive(p), 1, Len(AfterPositive(p)) - ConsumedBack(p, q))

\* For the edges of a call, one offset consumes two edges and stops at an
\* edge that is too long, another stops with the offset used up, and after
\* a positive offset the negative one consumes an edge from the back.
C24_TwoEdgesConsumed ==
  /\ pc = "done"
  /\ \E p \in PrefixProbes :
       /\ ConsumedFront(p) = 2
       /\ Len(GraphEdgesFound) > 2
       /\ RemainingAt(MapSeq(GraphEdgesFound, ToPair), p, 3) > 0
  /\ \E p \in PrefixProbes :
       /\ ConsumedFront(p) \in 1..Len(GraphEdgesFound) - 1
       /\ RemainingAt(MapSeq(GraphEdgesFound, ToPair), p, ConsumedFront(p) + 1) <= 0
  /\ \E p, q \in PrefixProbes : ConsumedFront(p) >= 1 /\ ConsumedBack(p, q) >= 1

\* Search edges between the junctions 0, 10, 20 and 30, up to three in a
\* range, and the candidates they are measured on: both directions, a part
\* of the line, and one of length zero.
ProbeEdge(a, b) == [m_u |-> [m_junction |-> a], m_v |-> [m_junction |-> b]]
CoverageProbes ==
  LET E == { ProbeEdge(a, b) : a \in {0, 10, 20, 30}, b \in {0, 10, 20, 30} }
  IN {<<>>} \cup { <<e>> : e \in E } \cup { <<e, f>> : e \in E, f \in E }
       \cup { <<e, f, g>> : e \in E, f \in E, g \in E }
CandidateProbes == { <<0, 30>>, <<30, 0>>, <<10, 30>>, <<20, 20>> }

\* The metres of the candidate u-v that lie under a search edge of es whose
\* ends are on the candidate and which does not run against it.
CoveredMetres(u, v, es) ==
  { x \in Min(u, v)..Max(u, v) - 1 :
      \E i \in 1..Len(es) :
        /\ Qualifies(u, v, es[i])
        /\ Min(es[i].m_u.m_junction, es[i].m_v.m_junction) <= x
        /\ x + 1 <= Max(es[i].m_u.m_junction, es[i].m_v.m_junction) }

\* GetCoverage on u-v and es is the length of the union of the intervals, as
\* a fraction of the candidate's length, and 0 for a candidate below 1 m.
MeasuresUnion(u, v, es) ==
  /\ GetCoverage(u, v, es).den > 0
  /\ GetCoverage(u, v, es).num >= 0
  /\ GetCoverage(u, v, es).num <= GetCoverage(u, v, es).den
  /\ IF DistanceOnEarth(u, v) < 1 THEN GetCoverage(u, v, es).num = 0
     ELSE /\ GetCoverage(u, v, es).den = DistanceOnEarth(u, v)
          /\ GetCoverage(u, v, es).num = Cardinality(CoveredMetres(u, v, es))

\* C25: GetCoverage returns the total length of the union of the intervals
\* the qualifying search edges induce on the candidate, overlapping or
\* touching intervals counted once, so the result lies in [0, 1] (the CHECK
\* coverage <= 1 + 1e-5 holds), and is 0 for a candidate shorter than 1 m.
\* The probe ranges do not depend on the state and are measured before the
\* first call; the search edges of a call are measured on every candidate of
\* the single-edge approximation.
C25_CoverageIsUnionLength ==
  /\ calls = 0 =>
       \A c \in CandidateProbes, es \in CoverageProbes : MeasuresUnion(c[1], c[2], es)
  /\ OnlyFakeFound => \A c \in Candidates : MeasuresUnion(c.start, c.end, Trimmed)

\* The single-edge approximation measured fake search edges that cover a
\* part of a candidate, and none of another; among the probes, an interval
\* lies inside an earlier one and ends before it.
C25_PartlyCovered ==
  /\ OnlyFakeFound
  /\ \E c \in Candidates : FractionOf(c).num > 0 /\ FractionOf(c).num < FractionOf(c).den
  /\ \E c \in Candidates : FractionOf(c).num = 0
  /\ <<ProbeEdge(0, 30), ProbeEdge(10, 20)>> \in CoverageProbes

\* The distance-error penalty on the graph edge that the back-link t to v
\* holds: what the penalty of v has above that of t.u, less the fake and
\* the bearing penalty of the edge.
DistanceErrorPaid(v, t) ==
  scores[v].m_penalty - scores[t.u].m_penalty
    - EdgeFakePenalty(ZeroScore, t.e.m_raw, GetWeight(t.e.m_raw)).m_penalty
    - EdgeBearing(ZeroScore, v.m_bearingChecked /\ ~t.u.m_bearingChecked, t.u,
                  PointAtSegment(t.e.m_raw.start, t.e.m_raw.end,
                                 RealDistance(scores[t.u], t.u) + GetWeight(t.e.m_raw)
                                   - v.m_stageStartDistance - kBearingDist)).m_penalty

\* The real length by which the end of the graph edge of the back-link t to
\* v lies beyond the declared length of its stage.
ExcessAt(v, t) ==
  RealDistance(scores[t.u], t.u) + GetWeight(t.e.m_raw) - v.m_stageStartDistance
    - m_points[v.m_stage + 1].m_distanceToNextPointM

\* The graph edges of stage k on the back-link path to v.
StageEdges(v, k) ==
  SelectSeq(LinkChain(v, SourceVertex, links),
            LAMBDA e : ~e.m_isSpecial /\ e.m_u.m_stage = k)

\* C26: on every graph edge of a back-link path the distance-error penalty
\* is 3 times the part of the edge beyond the declared length of the stage
\* (nothing before the declared length, the excess on the edge crossing it,
\* the full length on each later edge), and for every stage of the path the
\* penalties sum to 3 x max(0, L - dist_to_next), L being the real length
\* travelled in the stage.
C26_DistanceErrorSum ==
  pc # "idle" =>
    /\ \A v \in DOMAIN links :
         ~links[v].e.m_isSpecial =>
           DistanceErrorPaid(v, links[v])
             = kDistanceErrorCoeff * PenaltyScale
                 * Min(Max(ExcessAt(v, links[v]), 0), GetWeight(links[v].e.m_raw))
    /\ \A v \in DOMAIN links : \A k \in 0..v.m_stage :
         (k < Len(m_points) - 1) =>
           SumSeq(MapSeq(StageEdges(v, k), LAMBDA e : DistanceErrorPaid(e.m_v, links[e.m_v])))
             = kDistanceErrorCoeff * PenaltyScale
                 * Max(0, SearchLength(StageEdges(v, k))
                            - m_points[k + 1].m_distanceToNextPointM)

\* A final vertex was popped behind a stage with one edge that ends before
\* the declared length, one that crosses it and pays its excess part, and a
\* later one that pays its full length.
C26_CrossedAndBeyond ==
  /\ popped.kind = "final"
  /\ \E k \in 0..Len(m_points) - 2 :
       /\ \E e \in {found[i] : i \in 1..Len(found)} :
            /\ ~e.m_isSpecial /\ e.m_u.m_stage = k
            /\ ExcessAt(e.m_v, links[e.m_v]) > 0
            /\ ExcessAt(e.m_v, links[e.m_v]) < GetWeight(e.m_raw)
       /\ \E e \in {found[i] : i \in 1..Len(found)} :
            /\ ~e.m_isSpecial /\ e.m_u.m_stage = k
            /\ ExcessAt(e.m_v, links[e.m_v]) > GetWeight(e.m_raw)
       /\ \E e \in {found[i] : i \in 1..Len(found)} :
            /\ ~e.m_isSpecial /\ e.m_u.m_stage = k
            /\ ExcessAt(e.m_v, links[e.m_v]) < 0

\* The output vector holds one edge before, or one edge after, the real
\* edges left after trimming.
FrontPrepended ==
  /\ RealPart(Trimmed) # <<>>
  /\ Len(path) > Len(RealPart(Trimmed))
  /\ SubSeq(path, 2, Len(RealPart(Trimmed)) + 1) = RealPart(Trimmed)

BackAppended ==
  /\ RealPart(Trimmed) # <<>>
  /\ Len(path) > Len(RealPart(Trimmed))
  /\ SubSeq(path, Len(path) - Len(RealPart(Trimmed)), Len(path) - 1) = RealPart(Trimmed)

\* The search edges left after trimming start with fake edges of stage 0
\* followed by a real edge; they end with a real edge followed by fake
\* edges of the last stage.
FakeThenReal ==
  \E b \in 2..Len(Trimmed) :
    /\ ~Trimmed[b].m_raw.isFake
    /\ \A i \in 1..b - 1 :
         /\ Trimmed[i].m_raw.isFake
         /\ Trimmed[i].m_u.m_stage = 0 /\ Trimmed[i].m_v.m_stage = 0

RealThenFake ==
  \E b \in 1..Len(Trimmed) - 1 :
    /\ ~Trimmed[b].m_raw.isFake
    /\ \A i \in b + 1..Len(Trimmed) :
         /\ Trimmed[i].m_raw.isFake
         /\ Trimmed[i].m_u.m_stage = Len(m_points) - 2
         /\ Trimmed[i].m_v.m_stage = Len(m_points) - 2

\* C27: a front edge is prepended only if the search edges left after
\* trimming start with at least one fake edge of stage 0 followed by a real
\* edge and the best matching score is at least 0.5; when the first edge
\* left is real, the ingoing edges at its start are enumerated but nothing
\* is prepended and the output starts with that edge; the same holds for
\* the back edge, the last stage and the outgoing edges at the end of the
\* last edge left.
C27_AttachedOnlyAfterFakeEdges ==
  (pc = "done" /\ popped.kind = "final") =>
    /\ FrontPrepended =>
         FakeThenReal /\ RatioAtLeast(FrontMatch(Trimmed).score, 1, 2)
    /\ BackAppended =>
         RealThenFake /\ RatioAtLeast(BackMatch(Trimmed).score, 1, 2)
    /\ Len(path) <= Len(RealPart(Trimmed)) + 2
    /\ (Trimmed # <<>> /\ ~Trimmed[1].m_raw.isFake) =>
         /\ Trimmed[1].m_u.m_junction \in DOMAIN m_ingoingCache
         /\ ~FrontPrepended
         /\ path # <<>> /\ path[1] = Trimmed[1].m_raw
    /\ (Trimmed # <<>> /\ ~Trimmed[Len(Trimmed)].m_raw.isFake) =>
         /\ Trimmed[Len(Trimmed)].m_v.m_junction \in DOMAIN m_outgoingCache
         /\ ~BackAppended
         /\ path # <<>> /\ path[Len(path)] = Trimmed[Len(Trimmed)].m_raw

\* A front edge was prepended to a path whose last search edge is real, so
\* that the back edge was looked for and none appended.
C27_FrontOnly ==
  /\ Returned
  /\ FrontPrepended
  /\ FakeThenReal
  /\ ~Trimmed[Len(Trimmed)].m_raw.isFake
  /\ Len(path) = Len(RealPart(Trimmed)) + 1

\* C28: neither CHECK of FindSingleEdgeApproximation fails: the fallback
\* is entered only when every search edge left after trimming is fake, and
\* every search edge left is a graph edge with the same stage at both ends;
\* a graph edge changes only the junction and possibly bearing_checked,
\* never stage, stage_start or stage_start_distance.
C28_ApproximationChecksHold ==
  /\ popped.kind = "final" =>
       /\ pc = "done"
       /\ \A i \in 1..Len(Trimmed) : ~Trimmed[i].m_isSpecial
       /\ path = <<>> => \A i \in 1..Len(Trimmed) : Trimmed[i].m_raw.isFake
       /\ (\A i \in 1..Len(Trimmed) : Trimmed[i].m_raw.isFake) =>
            /\ \A i \in 1..Len(Trimmed) : Trimmed[i].m_u.m_stage = Trimmed[i].m_v.m_stage
            /\ path \in {<<>>} \cup { <<c>> : c \in Candidates }
  /\ \A v \in DOMAIN links :
       ~links[v].e.m_isSpecial =>
         /\ v.m_stage = links[v].u.m_stage
         /\ v.m_stageStart = links[v].u.m_stageStart
         /\ v.m_stageStartDistance = links[v].u.m_stageStartDistance
         /\ v.m_junction = links[v].e.m_raw.end
         /\ links[v].u.m_junction = links[v].e.m_raw.start

\* The fallback ran on two or more fake edges, what was found holding a
\* special edge between vertices of different stages as well.
C28_FallbackEntered ==
  /\ OnlyFakeFound
  /\ Len(Trimmed) >= 2
  /\ \E i \in 1..Len(found) :
       found[i].m_isSpecial /\ found[i].m_u.m_stage # found[i].m_v.m_stage

\* The vertices the search holds: those with a score and those in the queue.
SearchVertices == DOMAIN scores \cup {q[2] : q \in queue}

\* C29: after every successful Init, also one that follows successful or
\* failed Init calls on the same Router, there are exactly num_points - 1
\* pivot lists, none empty, the last holding exactly the point of the final
\* way-point and each other one the ends of the edges near its way-point; so
\* for every vertex of the search below the final stage the pivot list of
\* its stage exists and is not empty, which is what GetPotential checks.
C29_PivotListsAfterInit ==
  pc = "search" =>
    /\ Len(m_pivots) = Len(m_points) - 1
    /\ \A i \in 1..Len(m_pivots) : m_pivots[i] # {}
    /\ m_pivots[Len(m_pivots)] = {m_points[Len(m_points)].m_point}
    /\ \A i \in 1..Len(m_pivots) - 1 :
         m_pivots[i]
           = PivotPoints(FindClosestEdges(world, m_points[i + 1].m_point, kMaxRoadCandidates))
    /\ \A u \in SearchVertices :
         ~IsFinalVertex(u) => u.m_stage < Len(m_pivots) /\ m_pivots[u.m_stage + 1] # {}

\* The third call on a router searches along three way-points after a call
\* whose Init failed at an empty pivot list and a call that returned a path.
C29_SearchAfterFailedInit ==
  /\ pc = "search"
  /\ calls = 3
  /\ Len(m_points) = 3
  /\ Cardinality(SearchVertices) > 1
  /\ \E key \in DOMAIN history :
       /\ Len(key.points) = 3
       /\ ~RouterInit(world, key.points).ok
       /\ RouterInit(world, key.points).pivots # <<>>
  /\ \E key \in DOMAIN history : history[key].result

====
